---- MODULE Spec2Model ----
(***************************************************************************)
(* The MiniMax provider adapter of the LLM proxy: request adapter,         *)
(* response adapter and stream adapter, as implemented in                  *)
(*   platform/backend/src/routes/proxy/adapterV2/minimax.ts  (impl "v2")   *)
(*   unnamed/part_004, the near-duplicate implementation     (impl "split")*)
(* The two files differ in toProviderRequest (reasoning_split injection),  *)
(* in the reasoning branch of processChunk and in toProviderResponse.      *)
(*                                                                         *)
(* Optional values (undefined / null / absent) are sequences of length 0   *)
(* or 1: None is <<>>, Some(v) is <<v>>.                                   *)
(***************************************************************************)
EXTENDS Integers, Sequences, FiniteSets, TLC

VARIABLES
    impl,                   \* which of the two source files is running
    \* ---- stream adapter (class MiniMaxStreamAdapter)
    upstream,               \* the chunks the upstream provider may deliver
    state,                  \* this.state : StreamAccumulatorState
    currentToolCallIndices, \* this.currentToolCallIndices : Map<number, number>
    chunks,                 \* history: the chunks processed so far, in order
    results,                \* history: what processChunk returned for each
    \* ---- request adapter (class MiniMaxRequestAdapter)
    nativeRequest,          \* the request object handed to createRequestAdapter
    request,                \* this.request
    modifiedModel,          \* this.modifiedModel : string | null
    toolResultUpdates,      \* this.toolResultUpdates : Record<string, string>
    lastModelSet,           \* history: the argument of the last setModel call
    staged,                 \* history: per id, the content of the last update staged
    toonApplied,            \* history: applyToonCompression has completed
    \* ---- response adapter (class MiniMaxResponseAdapter)
    response,               \* this.response
    \* ---- two adapters of one kind, created by the factory one after the
    \* ---- other: the objects they are made of and what was called on each
    pair,
    \* ---- model listing (routes/chat/routes.models.ts, routes/chat-models.ts)
    listing,                \* the API keys, the upstreams' health and the cache
    \* ---- VaultSecretManager: the secrets table and the Vault store
    secrets,
    \* ---- the value returned by the most recent call, as [op, value]
    ret

streamVars == <<upstream, state, currentToolCallIndices, chunks, results>>

requestVars == <<nativeRequest, request, modifiedModel, toolResultUpdates,
                 lastModelSet, staged, toonApplied>>

vars == <<impl, streamVars, requestVars, response, pair, listing, secrets, ret>>

Impls == {"v2", "split"}

(***************************************************************************)
(* Optional values and JavaScript truthiness                               *)
(***************************************************************************)
None == <<>>

Some(v) == <<v>>

\* a ?? d
OrElse(opt, d) == IF opt = None THEN d ELSE opt[1]

\* if (s) for an optional string: undefined, null and "" are falsy
TruthyStr(opt) == opt # None /\ opt[1] # ""

(***************************************************************************)
(* Stream chunks (MiniMax.Types.ChatCompletionChunk)                       *)
(***************************************************************************)
\* One entry of delta.tool_calls
ToolCallDelta(index, id, name, arguments) ==
    [index |-> index, id |-> id, name |-> name, arguments |-> arguments]

\* choices[0]: delta.content, delta.reasoning_details, delta.tool_calls, finish_reason
Choice(content, reasoning, toolCalls, finish) ==
    [content |-> content, reasoning_details |-> reasoning,
     tool_calls |-> toolCalls, finish_reason |-> finish]

Chunk(id, model, usage, choices) ==
    [id |-> id, model |-> model, usage |-> usage, choices |-> choices]

\* chunk.usage with the total_tokens the provider reports
UsageTotalling(prompt, completion, total) ==
    [prompt_tokens |-> prompt, completion_tokens |-> completion,
     total_tokens |-> total]

\* chunk.usage whose total_tokens is the sum of the tokens it reports
Usage(prompt, completion) ==
    UsageTotalling(prompt, completion, Some(OrElse(prompt, 0) + OrElse(completion, 0)))

ChunkId == "chatcmpl-1"

ChunkModel == "MiniMax-M2"

TextChunk(t) ==
    Chunk(ChunkId, ChunkModel, None, <<Choice(Some(t), None, None, None)>>)

ReasoningChunk(details) ==
    Chunk(ChunkId, ChunkModel, None, <<Choice(None, Some(details), None, None)>>)

ToolChunk(deltas) ==
    Chunk(ChunkId, ChunkModel, None, <<Choice(None, None, Some(deltas), None)>>)

FinishChunk(reason) ==
    Chunk(ChunkId, ChunkModel, None, <<Choice(None, None, None, Some(reason))>>)

\* the terminating chunk: usage and no choices
UsageChunk(u) == Chunk(ChunkId, ChunkModel, Some(u), <<>>)

\* usage delivered together with a choice
UsageChoiceChunk(u, choice) == Chunk(ChunkId, ChunkModel, Some(u), <<choice>>)

KeepAliveChunk == Chunk(ChunkId, ChunkModel, None, <<>>)

\* A tool call streamed as three argument fragments under index 0, a
\* finish_reason chunk and a usage chunk with empty choices.
ToolCallUpstream ==
    { ToolChunk(<<ToolCallDelta(0, Some("call_1"), Some("get_weather"),
                                Some("{\"location\":"))>>),
      ToolChunk(<<ToolCallDelta(0, None, None, Some("\"NY\""))>>),
      ToolChunk(<<ToolCallDelta(0, None, None, Some("}"))>>),
      ToolChunk(<<ToolCallDelta(0, None, None, Some(""))>>),
      FinishChunk("tool_calls"),
      UsageChunk(Usage(Some(10), Some(5))) }

\* A text stream: content deltas, a reasoning delta, a finish_reason chunk,
\* usage delivered with or without a choice, and a chunk with neither.
TextUpstream ==
    { TextChunk("Hel"),
      TextChunk("lo"),
      ReasoningChunk(<<[text |-> Some("think")]>>),
      FinishChunk("stop"),
      UsageChoiceChunk(Usage(Some(7), None),
                       Choice(None, None, None, Some("length"))),
      UsageChunk(UsageTotalling(Some(3), Some(4), Some(9))),
      KeepAliveChunk }

\* Reasoning deltas: a detail with text, a detail without (text is optional
\* in reasoning_details), a delta with both content and reasoning, and an
\* empty content delta.
ReasoningUpstream ==
    { ReasoningChunk(<<[text |-> Some("plan")]>>),
      ReasoningChunk(<<[text |-> None]>>),
      Chunk(ChunkId, ChunkModel, None,
            <<Choice(Some("Hi"), Some(<<[text |-> Some("why")]>>), None, None)>>),
      TextChunk("") }

\* Tool calls under two indexes: index 1 announced before index 0 in one
\* chunk, a fragment for index 0, a delta that names index 0 again with
\* another id and name, and a delta with an empty tool_calls array.
IndexedToolUpstream ==
    { ToolChunk(<<ToolCallDelta(1, Some("call_b"), Some("get_time"), Some("{}")),
                  ToolCallDelta(0, Some("call_a"), Some("get_weather"), Some("{"))>>),
      ToolChunk(<<ToolCallDelta(0, None, None, Some("}"))>>),
      ToolChunk(<<ToolCallDelta(0, Some("call_z"), Some("get_news"), None)>>),
      ToolChunk(<<>>) }

Upstreams == {ToolCallUpstream, TextUpstream, ReasoningUpstream, IndexedToolUpstream}

\* the longest stream that is fed to one adapter
MaxChunks == 5

(***************************************************************************)
(* MiniMaxStreamAdapter                                                    *)
(***************************************************************************)
\* constructor()
NewStreamState ==
    [responseId |-> "", model |-> "", text |-> "", reasoning |-> "",
     toolCalls |-> <<>>, rawToolCallEvents |-> <<>>,
     usage |-> None, stopReason |-> None, firstChunkSeen |-> FALSE]

\* `data: ${JSON.stringify(chunk)}\n\n`
SSEFrame(json) == [prefix |-> "data: ", json |-> json, suffix |-> "\n\n"]

\* only the first usage of a stream is recorded
RecordUsageOnce(st, chunk) ==
    IF chunk.usage # None /\ st.usage = None
    THEN [st EXCEPT !.usage =
            Some([inputTokens  |-> OrElse(chunk.usage[1].prompt_tokens, 0),
                  outputTokens |-> OrElse(chunk.usage[1].completion_tokens, 0)])]
    ELSE st

\* a chunk without usage clears the recorded usage
RecordUsageOfThisChunk(st, chunk) ==
    IF chunk.usage # None
    THEN [st EXCEPT !.usage =
            Some([inputTokens  |-> OrElse(chunk.usage[1].prompt_tokens, 0),
                  outputTokens |-> OrElse(chunk.usage[1].completion_tokens, 0)])]
    ELSE [st EXCEPT !.usage = None]

\* processChunk, "if (chunk.usage) { this.state.usage = ... }"
RecordUsage(st, chunk) ==
    IF chunk.usage # None
    THEN [st EXCEPT !.usage =
            Some([inputTokens  |-> OrElse(chunk.usage[1].prompt_tokens, 0),
                  outputTokens |-> OrElse(chunk.usage[1].completion_tokens, 0)])]
    ELSE st

\* a delta replaces the accumulated arguments instead of appending to them
ApplyToolCallDeltaReplacing(acc, d) ==
    LET known   == d.index \in DOMAIN acc.indices
        indices == IF known THEN acc.indices
                   ELSE [i \in DOMAIN acc.indices \cup {d.index} |->
                            IF i = d.index THEN Len(acc.toolCalls) + 1
                            ELSE acc.indices[i]]
        calls   == IF known THEN acc.toolCalls
                   ELSE Append(acc.toolCalls,
                               [id |-> OrElse(d.id, ""),
                                name |-> OrElse(d.name, ""),
                                arguments |-> ""])
        pos     == indices[d.index]
        tc      == calls[pos]
        tc1     == IF TruthyStr(d.id) THEN [tc EXCEPT !.id = d.id[1]] ELSE tc
        tc2     == IF TruthyStr(d.name) THEN [tc1 EXCEPT !.name = d.name[1]] ELSE tc1
        tc3     == IF TruthyStr(d.arguments)
                   THEN [tc2 EXCEPT !.arguments = d.arguments[1]]
                   ELSE tc2
    IN  [toolCalls |-> [calls EXCEPT ![pos] = tc3], indices |-> indices]

\* the entry of a new index is put in front of the list
ApplyToolCallDeltaAtFront(acc, d) ==
    LET known   == d.index \in DOMAIN acc.indices
        indices == IF known THEN acc.indices
                   ELSE [i \in DOMAIN acc.indices \cup {d.index} |->
                            IF i = d.index THEN 1 ELSE acc.indices[i]]
        calls   == IF known THEN acc.toolCalls
                   ELSE <<[id |-> OrElse(d.id, ""),
                           name |-> OrElse(d.name, ""),
                           arguments |-> ""]>> \o acc.toolCalls
        pos     == indices[d.index]
        tc      == calls[pos]
        tc1     == IF TruthyStr(d.id) THEN [tc EXCEPT !.id = d.id[1]] ELSE tc
        tc2     == IF TruthyStr(d.name) THEN [tc1 EXCEPT !.name = d.name[1]] ELSE tc1
        tc3     == IF TruthyStr(d.arguments)
                   THEN [tc2 EXCEPT !.arguments = tc2.arguments \o d.arguments[1]]
                   ELSE tc2
    IN  [toolCalls |-> [calls EXCEPT ![pos] = tc3], indices |-> indices]

\* processChunk, one iteration of "for (const toolCallDelta of delta.tool_calls)".
\* acc = [toolCalls, indices]: the accumulator list and the index map.
ApplyToolCallDelta(acc, d) ==
    LET known   == d.index \in DOMAIN acc.indices
        indices == IF known THEN acc.indices
                   ELSE [i \in DOMAIN acc.indices \cup {d.index} |->
                            IF i = d.index THEN Len(acc.toolCalls) + 1
                            ELSE acc.indices[i]]
        calls   == IF known THEN acc.toolCalls
                   ELSE Append(acc.toolCalls,
                               [id |-> OrElse(d.id, ""),
                                name |-> OrElse(d.name, ""),
                                arguments |-> ""])
        pos     == indices[d.index]
        tc      == calls[pos]
        tc1     == IF TruthyStr(d.id) THEN [tc EXCEPT !.id = d.id[1]] ELSE tc
        tc2     == IF TruthyStr(d.name) THEN [tc1 EXCEPT !.name = d.name[1]] ELSE tc1
        tc3     == IF TruthyStr(d.arguments)
                   THEN [tc2 EXCEPT !.arguments = tc2.arguments \o d.arguments[1]]
                   ELSE tc2
    IN  [toolCalls |-> [calls EXCEPT ![pos] = tc3], indices |-> indices]

RECURSIVE ApplyToolCallDeltas(_, _)
ApplyToolCallDeltas(acc, deltas) ==
    IF deltas = <<>> THEN acc
    ELSE ApplyToolCallDeltas(ApplyToolCallDelta(acc, Head(deltas)), Tail(deltas))

\* processChunk, the reasoning branch: the text appended to the reasoning
\* accumulator by one chunk (part_004 only)
RECURSIVE ReasoningText(_)
ReasoningText(details) ==
    IF details = <<>> THEN ""
    ELSE (IF TruthyStr(Head(details).text) THEN Head(details).text[1] ELSE "")
         \o ReasoningText(Tail(details))

\* processChunk: whether the reasoning branch stages the chunk for forwarding
ReasoningForwards(im, details) ==
    IF im = "v2" THEN TRUE
    ELSE \E k \in 1..Len(details) : TruthyStr(details[k].text)

\* a content delta is put in front of the accumulated text
AccumulateTextPrepending(st, choice) ==
    IF TruthyStr(choice.content)
    THEN [st EXCEPT !.text = choice.content[1] \o st.text]
    ELSE st

\* processChunk, "if (delta.content) { this.state.text += delta.content; ... }"
AccumulateText(st, choice) ==
    IF TruthyStr(choice.content)
    THEN [st EXCEPT !.text = st.text \o choice.content[1]]
    ELSE st

\* a finish_reason alone ends the stream
IsFinalOnFinishReason(st) == st.usage # None \/ st.stopReason # None

\* processChunk: the value of isFinal once the chunk has been folded in
IsFinalAfter(st) == st.usage # None

\* processChunk(chunk): [state, indices, result]
ProcessChunk(im, st0, idx0, chunk) ==
    LET st1 == [RecordUsage(st0, chunk) EXCEPT
                    !.firstChunkSeen = TRUE,
                    !.responseId = chunk.id,
                    !.model = chunk.model]
    IN  IF chunk.choices = <<>>
        THEN [state |-> st1, indices |-> idx0,
              result |-> [sseData |-> None, isToolCallChunk |-> FALSE,
                          isFinal |-> IsFinalAfter(st1)]]
        ELSE
        LET choice  == chunk.choices[1]
            hasText == TruthyStr(choice.content)
            hasReas == choice.reasoning_details # None
            hasTool == choice.tool_calls # None
            st2 == AccumulateText(st1, choice)
            st3 == IF hasReas /\ im = "split"
                   THEN [st2 EXCEPT !.reasoning =
                            st2.reasoning \o ReasoningText(choice.reasoning_details[1])]
                   ELSE st2
            sse == IF hasText \/ (hasReas /\ ReasoningForwards(im, choice.reasoning_details[1]))
                   THEN Some(SSEFrame(chunk))
                   ELSE None
            acc == IF hasTool
                   THEN ApplyToolCallDeltas([toolCalls |-> st3.toolCalls, indices |-> idx0],
                                            choice.tool_calls[1])
                   ELSE [toolCalls |-> st3.toolCalls, indices |-> idx0]
            st4 == IF hasTool
                   THEN [st3 EXCEPT !.toolCalls = acc.toolCalls,
                                    !.rawToolCallEvents = Append(st3.rawToolCallEvents, chunk)]
                   ELSE st3
            st5 == IF TruthyStr(choice.finish_reason)
                   THEN [st4 EXCEPT !.stopReason = choice.finish_reason]
                   ELSE st4
        IN  [state |-> st5, indices |-> acc.indices,
             result |-> [sseData |-> sse, isToolCallChunk |-> hasTool,
                         isFinal |-> IsFinalAfter(st5)]]

\* toProviderResponse(); the wall-clock field "created" is left out
ToProviderResponse(im, st) ==
    [id |-> st.responseId,
     object |-> "chat.completion",
     model |-> st.model,
     choices |-> <<
        [index |-> 0,
         message |->
            [role |-> "assistant",
             content |-> IF st.text # "" THEN Some(st.text)
                         ELSE IF im = "v2" THEN None ELSE Some(""),
             refusal |-> None,
             tool_calls |->
                IF Len(st.toolCalls) > 0
                THEN Some([k \in 1..Len(st.toolCalls) |->
                            [id |-> st.toolCalls[k].id,
                             type |-> "function",
                             function |-> [name |-> st.toolCalls[k].name,
                                           arguments |-> st.toolCalls[k].arguments]]])
                ELSE None,
             reasoning_details |->
                IF im = "split" /\ st.reasoning # ""
                THEN Some(<<[text |-> Some(st.reasoning)]>>)
                ELSE None],
         logprobs |-> None,
         finish_reason |-> OrElse(st.stopReason, "stop")] >>,
     usage |->
        [prompt_tokens |-> IF st.usage = None THEN 0 ELSE st.usage[1].inputTokens,
         completion_tokens |-> IF st.usage = None THEN 0 ELSE st.usage[1].outputTokens,
         total_tokens |-> (IF st.usage = None THEN 0 ELSE st.usage[1].inputTokens)
                          + (IF st.usage = None THEN 0 ELSE st.usage[1].outputTokens)]]

\* the terminal frame, `data: [DONE]\n\n`
DoneFrame == [prefix |-> "data: ", json |-> "[DONE]", suffix |-> "\n\n"]

\* the end frame always announces "stop"
FormatEndSSEAlwaysStop(st) ==
    << SSEFrame([id |-> st.responseId,
                 object |-> "chat.completion.chunk",
                 model |-> st.model,
                 choices |-> <<[index |-> 0, delta |-> <<>>,
                                finish_reason |-> "stop"]>>]),
       DoneFrame >>

\* formatEndSSE(): the frames of the returned string, in order; delta is the
\* empty object
FormatEndSSE(st) ==
    << SSEFrame([id |-> st.responseId,
                 object |-> "chat.completion.chunk",
                 model |-> st.model,
                 choices |-> <<[index |-> 0, delta |-> <<>>,
                                finish_reason |-> OrElse(st.stopReason, "stop")]>>]),
       DoneFrame >>

(***************************************************************************)
(* JSON texts.  JSON.parse is the ECMAScript built-in; it is given here on *)
(* the texts the model uses.  A parsed value is [kind, repr]: its JSON     *)
(* type and its canonical text.                                            *)
(***************************************************************************)
JsonValue(kind, repr) == [kind |-> kind, repr |-> repr]

EmptyObject == JsonValue("object", "{}")

JsonObjectTexts == {"{}", "{\"temp\":72}", "{\"location\":\"NY\"}", "{\"ok\":true}"}

\* a tool result wrapped in a content envelope: [{"type":"text","text":...}]
Wrapped(text) == "[{\"type\":\"text\",\"text\":\"" \o text \o "\"}]"

JsonArrayTexts == {"[1,2]", Wrapped("42"), Wrapped("sunny")}

JsonStringTexts == {"\"hello\""}

JsonNumberTexts == {"42"}

JsonNullTexts == {"null"}

\* texts JSON.parse throws a SyntaxError on
JsonInvalidTexts == {"", "invalid json{", "sunny", "updated", "temp: 72",
                     "location: NY", "ok: true", "[2]: 1,2", "hello"}

JsonTexts == JsonObjectTexts \cup JsonArrayTexts \cup JsonStringTexts
                \cup JsonNumberTexts \cup JsonNullTexts

\* try { JSON.parse(text) } catch { ... }: [ok, value]
JsonParse(text) ==
    CASE text \in JsonObjectTexts -> [ok |-> TRUE, value |-> JsonValue("object", text)]
      [] text \in JsonArrayTexts  -> [ok |-> TRUE, value |-> JsonValue("array", text)]
      [] text \in JsonStringTexts -> [ok |-> TRUE, value |-> JsonValue("string", text)]
      [] text \in JsonNumberTexts -> [ok |-> TRUE, value |-> JsonValue("number", text)]
      [] text \in JsonNullTexts   -> [ok |-> TRUE, value |-> JsonValue("null", text)]
      [] text \in JsonInvalidTexts -> [ok |-> FALSE, value |-> JsonValue("undefined", "")]

\* a raw string kept as a value (the fallback of a failed parse)
RawString(text) == JsonValue("raw", text)

(***************************************************************************)
(* Requests (MiniMax.Types.ChatCompletionsRequest)                         *)
(***************************************************************************)
\* message.content: a string, or an array of text parts (text: the part's text)
StringContent(text) == [isString |-> TRUE, text |-> text]

PartsContent(text) == [isString |-> FALSE, text |-> text]

\* one entry of an assistant message's tool_calls; name is function.name for
\* type "function" and custom.name for type "custom"
ToolCall(id, type, name, arguments) ==
    [id |-> id, type |-> type, name |-> name, arguments |-> arguments]

Message(role, content, toolCallId, toolCalls) ==
    [role |-> role, content |-> content, tool_call_id |-> toolCallId,
     tool_calls |-> toolCalls]

UserMessage(text) == Message("user", StringContent(text), "", None)

AssistantMessage(toolCalls) == Message("assistant", StringContent(""), "", toolCalls)

ToolMessage(id, content) == Message("tool", content, id, None)

\* site: the place the object was created at.  "caller": handed to the
\* constructor; "toon": the literal of applyToonCompression; "provider": the
\* literal returned by toProviderRequest.  Objects of different sites are
\* different objects.
Request(site, model, messages, stream, reasoningSplit) ==
    [site |-> site, model |-> model, messages |-> messages, stream |-> stream,
     reasoning_split |-> reasoningSplit]

Models == {"MiniMax-M2", "MiniMax-M2.1", "abab6.5s-chat", ""}

\* the characters of a model name
Spelling(name) ==
    CASE name = "MiniMax-M2"    -> <<"M","i","n","i","M","a","x","-","M","2">>
      [] name = "MiniMax-M2.1"  -> <<"M","i","n","i","M","a","x","-","M","2",".","1">>
      [] name = "abab6.5s-chat" -> <<"a","b","a","b","6",".","5","s","-","c","h","a","t">>
      [] name = ""              -> <<>>

\* the name is compared for equality instead of searched
IncludesWholeName(name, part) == name = part

\* String.prototype.includes
Includes(name, part) ==
    LET s == Spelling(name)
        t == Spelling(part)
    IN  \E i \in 1..(Len(s) + 1) :
            /\ i + Len(t) - 1 <= Len(s)
            /\ SubSeq(s, i, i + Len(t) - 1) = t

WeatherConversation ==
    << UserMessage("get weather"),
       AssistantMessage(Some(<< ToolCall("call_1", "function", "get_weather", "{\"location\":\"NY\"}"),
                                ToolCall("call_2", "custom", "get_sky", "sunny") >>)),
       ToolMessage("call_1", StringContent("{\"temp\":72}")),
       ToolMessage("call_2", StringContent("sunny")) >>

PlainConversation == << UserMessage("hello") >>

PartsConversation ==
    << AssistantMessage(Some(<< ToolCall("call_1", "function", "get_weather", "{}") >>)),
       ToolMessage("call_1", PartsContent("{\"temp\":72}")),
       ToolMessage("call_1", StringContent("{\"ok\":true}")) >>

\* tool results that arrive inside a content envelope
WrappedConversation ==
    << AssistantMessage(Some(<< ToolCall("call_1", "function", "get_weather", "{}"),
                                ToolCall("call_2", "function", "get_count", "{}") >>)),
       ToolMessage("call_1", StringContent(Wrapped("sunny"))),
       ToolMessage("call_2", StringContent(Wrapped("42"))) >>

\* the requests an adapter is created for, up to the model name
BaseRequests ==
    { Request("caller", "", WeatherConversation, Some(TRUE), None),
      Request("caller", "", PlainConversation, None, Some(FALSE)),
      Request("caller", "", PartsConversation, Some(FALSE), Some(TRUE)),
      Request("caller", "", WrappedConversation, Some(TRUE), Some(FALSE)) }

NativeRequests ==
    { [r EXCEPT !.model = m] : r \in BaseRequests, m \in Models }

\* the ids and contents updateToolResult is called with
UpdateIds == {"call_1", "call_2", "call_9"}

UpdateContents == {"", "updated"}

\* the arguments applyToolResultUpdates is called with
UpdateBatches ==
    { [id \in {"call_1", "call_2"} |-> "updated"],
      [id \in {"call_2"} |-> ""] }

(***************************************************************************)
(* Compression collaborators, not part of the adapter file                 *)
(***************************************************************************)
\* unwrapToolContent (../utils/unwrap-tool-content): strips a content-wrapping
\* envelope and returns the wrapped text; a string with no envelope is
\* returned as it is
UnwrapToolContent(text) ==
    CASE text = Wrapped("42")    -> "42"
      [] text = Wrapped("sunny") -> "sunny"
      [] OTHER                   -> text

\* encode of @toon-format/toon on the values the model uses
ToonEncode(value) ==
    CASE value.repr = "{}"                    -> ""
      [] value.repr = "{\"temp\":72}"         -> "temp: 72"
      [] value.repr = "{\"location\":\"NY\"}" -> "location: NY"
      [] value.repr = "{\"ok\":true}"         -> "ok: true"
      [] value.repr = "[1,2]"                 -> "[2]: 1,2"
      [] value.repr = "\"hello\""             -> "hello"
      [] value.repr = "42"                    -> "42"
      [] value.repr = "null"                  -> "null"

\* getTokenizer("minimax").countTokens([{role: "user", content: text}])
CountTokens(text) ==
    CASE text = "{}"                    -> 1
      [] text = ""                      -> 0
      [] text = "{\"temp\":72}"         -> 6
      [] text = "temp: 72"              -> 4
      [] text = "{\"location\":\"NY\"}" -> 7
      [] text = "location: NY"          -> 4
      [] text = "{\"ok\":true}"         -> 5
      [] text = "ok: true"              -> 3
      [] text = "[1,2]"                 -> 5
      [] text = "[2]: 1,2"              -> 7
      [] text = "\"hello\""             -> 3
      [] text = "hello"                 -> 1
      [] text = "42"                    -> 1
      [] text = "null"                  -> 1

\* TokenPriceModel.findByModel(model): a price per million input tokens, or null
TokenPrices == {None, Some(3)}

(***************************************************************************)
(* convertToolResultsToToon                                                *)
(***************************************************************************)
\* whether the map callback compresses this message
ToonCompresses(message) ==
    /\ message.role = "tool"
    /\ message.content.isString
    /\ JsonParse(UnwrapToolContent(message.content.text)).ok

\* a string content that does not parse is blanked instead of kept
ToonMessageBlanking(message) ==
    IF ToonCompresses(message)
    THEN [message EXCEPT !.content = StringContent(
            ToonEncode(JsonParse(UnwrapToolContent(message.content.text)).value))]
    ELSE IF message.role = "tool" /\ message.content.isString
         THEN [message EXCEPT !.content = StringContent("")]
         ELSE message

\* the map callback of convertToolResultsToToon
ToonMessage(message) ==
    IF ToonCompresses(message)
    THEN [message EXCEPT !.content = StringContent(
            ToonEncode(JsonParse(UnwrapToolContent(message.content.text)).value))]
    ELSE message

RECURSIVE ToonTokensBefore(_)
ToonTokensBefore(messages) ==
    IF messages = <<>> THEN 0
    ELSE (IF ToonCompresses(Head(messages))
          THEN CountTokens(UnwrapToolContent(Head(messages).content.text))
          ELSE 0) + ToonTokensBefore(Tail(messages))

RECURSIVE ToonTokensAfter(_)
ToonTokensAfter(messages) ==
    IF messages = <<>> THEN 0
    ELSE (IF ToonCompresses(Head(messages))
          THEN CountTokens(ToonMessage(Head(messages)).content.text)
          ELSE 0) + ToonTokensAfter(Tail(messages))

\* the totals are reported only when tokens were saved
ConvertToolResultsToToonSavingsOnly(messages, price) ==
    LET before == ToonTokensBefore(messages)
        after  == ToonTokensAfter(messages)
    IN  [messages |-> [k \in 1..Len(messages) |-> ToonMessage(messages[k])],
         stats |->
            [toonTokensBefore |-> IF before - after > 0 THEN Some(before) ELSE None,
             toonTokensAfter  |-> IF before - after > 0 THEN Some(after) ELSE None,
             toonCostSavings  |->
                IF before - after > 0 /\ price # None
                THEN Some((before - after) * price[1])
                ELSE None]]

\* convertToolResultsToToon(messages, model), price being what
\* TokenPriceModel.findByModel(model) resolves to.  toonCostSavings is in
\* millionths: tokensSaved * pricePerMillionInput.
ConvertToolResultsToToon(messages, price) ==
    LET toolResultCount == Cardinality({k \in 1..Len(messages) : ToonCompresses(messages[k])})
        before == ToonTokensBefore(messages)
        after  == ToonTokensAfter(messages)
    IN  [messages |-> [k \in 1..Len(messages) |-> ToonMessage(messages[k])],
         stats |->
            [toonTokensBefore |-> IF toolResultCount > 0 THEN Some(before) ELSE None,
             toonTokensAfter  |-> IF toolResultCount > 0 THEN Some(after) ELSE None,
             toonCostSavings  |->
                IF toolResultCount > 0 /\ before - after > 0 /\ price # None
                THEN Some((before - after) * price[1])
                ELSE None]]

(***************************************************************************)
(* MiniMaxRequestAdapter                                                   *)
(***************************************************************************)
\* the override is used whenever it is non-empty (|| in place of ??)
GetModelUnlessEmpty(req, modified) ==
    IF modified # None /\ modified[1] # "" THEN modified[1] ELSE req.model

\* getModel()
GetModel(req, modified) == OrElse(modified, req.model)

\* getOriginalRequest()
GetOriginalRequest(req) == req

\* getProviderMessages()
GetProviderMessages(req) == req.messages

\* updates[message.tool_call_id] as a condition: the id is staged and its
\* content is a non-empty string
UpdateApplies(message, updates) ==
    /\ message.role = "tool"
    /\ message.tool_call_id \in DOMAIN updates
    /\ updates[message.tool_call_id] # ""

\* applyUpdates(messages, updates)
ApplyUpdates(messages, updates) ==
    IF DOMAIN updates = {} THEN messages
    ELSE [k \in 1..Len(messages) |->
            IF UpdateApplies(messages[k], updates)
            THEN [messages[k] EXCEPT
                    !.content = StringContent(updates[messages[k].tool_call_id])]
            ELSE messages[k]]

\* toProviderRequest hands out the held request itself when nothing is staged
ToProviderRequestSharing(im, req, modified, updates) ==
    IF modified = None /\ DOMAIN updates = {} /\ im = "v2"
    THEN req
    ELSE [req EXCEPT
            !.site = "provider",
            !.model = GetModel(req, modified),
            !.messages = ApplyUpdates(req.messages, updates),
            !.reasoning_split =
                IF im = "split" /\ Includes(GetModel(req, modified), "MiniMax-M2")
                THEN Some(TRUE) ELSE req.reasoning_split]

\* toProviderRequest()
ToProviderRequest(im, req, modified, updates) ==
    [req EXCEPT
        !.site = "provider",
        !.model = GetModel(req, modified),
        !.messages = IF DOMAIN updates # {}
                     THEN ApplyUpdates(req.messages, updates)
                     ELSE req.messages,
        !.reasoning_split =
            IF im = "split"
            THEN (IF Includes(GetModel(req, modified), "MiniMax-M2")
                  THEN Some(TRUE) ELSE req.reasoning_split)
            ELSE req.reasoning_split]

\* updateToolResult: this.toolResultUpdates[toolCallId] = newContent
StageUpdate(updates, id, content) ==
    [i \in DOMAIN updates \cup {id} |-> IF i = id THEN content ELSE updates[i]]

\* applyToolResultUpdates: Object.assign(this.toolResultUpdates, updates)
AssignUpdates(updates, batch) ==
    [i \in DOMAIN updates \cup DOMAIN batch |->
        IF i \in DOMAIN batch THEN batch[i] ELSE updates[i]]

(***************************************************************************)
(* The common format of request messages (toCommonFormat, getToolResults)  *)
(***************************************************************************)
\* findToolNameInMessages(messages, toolCallId): the scan runs from the end of
\* the list to its start; within a message, from the first tool call on
FindToolNameInMessages(messages, toolCallId) ==
    LET hits == {k \in 1..Len(messages) :
                    /\ messages[k].role = "assistant"
                    /\ messages[k].tool_calls # None
                    /\ \E c \in 1..Len(messages[k].tool_calls[1]) :
                            messages[k].tool_calls[1][c].id = toolCallId}
    IN  IF hits = {} THEN None
        ELSE LET k == CHOOSE x \in hits : \A y \in hits : x >= y
                 calls == messages[k].tool_calls[1]
                 c == CHOOSE x \in 1..Len(calls) :
                        /\ calls[x].id = toolCallId
                        /\ \A y \in 1..(x - 1) : calls[y].id # toolCallId
             IN  Some(calls[c].name)

\* the content of a tool result: the parsed JSON of a string content, the raw
\* string when it does not parse, the content itself when it is no string
ToolResultContent(content) ==
    IF content.isString
    THEN (IF JsonParse(content.text).ok THEN JsonParse(content.text).value
          ELSE RawString(content.text))
    ELSE JsonValue("parts", content.text)

CommonToolResult(id, name, content) ==
    [id |-> id, name |-> name, content |-> content, isError |-> FALSE]

\* toCommonFormat(messages)
ToCommonFormat(messages) ==
    [k \in 1..Len(messages) |->
        LET message  == messages[k]
            toolName == IF message.role = "tool"
                        THEN FindToolNameInMessages(messages, message.tool_call_id)
                        ELSE None
        IN  [role |-> message.role,
             toolCalls |->
                IF message.role = "tool" /\ TruthyStr(toolName)
                THEN Some(<<CommonToolResult(message.tool_call_id, toolName[1],
                                             ToolResultContent(message.content))>>)
                ELSE None]]

\* getMessages()
GetMessages(req) == ToCommonFormat(req.messages)

RECURSIVE ToolResultsOf(_, _)
ToolResultsOf(messages, rest) ==
    IF rest = <<>> THEN <<>>
    ELSE (IF Head(rest).role = "tool"
          THEN <<CommonToolResult(
                    Head(rest).tool_call_id,
                    OrElse(FindToolNameInMessages(messages, Head(rest).tool_call_id),
                           "unknown"),
                    ToolResultContent(Head(rest).content))>>
          ELSE <<>>) \o ToolResultsOf(messages, Tail(rest))

\* only the tool messages paired with an assistant tool call are reported
GetToolResultsPaired(req) ==
    SelectSeq(ToolResultsOf(req.messages, req.messages),
              LAMBDA r : r.name # "unknown")

\* getToolResults()
GetToolResults(req) == ToolResultsOf(req.messages, req.messages)

\* the messages a request is built from
MessageAlphabet ==
    { UserMessage("hi"),
      AssistantMessage(None),
      AssistantMessage(Some(<< ToolCall("call_1", "function", "get_weather", "{}") >>)),
      AssistantMessage(Some(<< ToolCall("call_1", "function", "get_time", "{}") >>)),
      AssistantMessage(Some(<< ToolCall("call_2", "custom", "get_sky", "sunny"),
                               ToolCall("call_1", "function", "get_weather", "{}") >>)),
      ToolMessage("call_1", StringContent("{\"temp\":72}")),
      ToolMessage("call_2", StringContent("sunny")) }

\* the longest message list of a request
MaxMessages == 3

RECURSIVE MessageLists(_)
MessageLists(n) ==
    IF n = 0 THEN {<<>>}
    ELSE MessageLists(n - 1) \cup
         {Append(l, m) : l \in {x \in MessageLists(n - 1) : Len(x) = n - 1},
                         m \in MessageAlphabet}

(***************************************************************************)
(* Responses (MiniMax.Types.ChatCompletionsResponse) and                   *)
(* MiniMaxResponseAdapter                                                  *)
(***************************************************************************)
ResponseMessage(content, toolCalls) ==
    [role |-> "assistant", content |-> content, refusal |-> None,
     tool_calls |-> toolCalls]

ResponseChoice(message, finish) ==
    [index |-> 0, message |-> message, logprobs |-> None, finish_reason |-> finish]

\* site: the place the object was created at.  "caller": handed to the
\* constructor; "refusal": the literal returned by toRefusalResponse.
Response(id, model, choices, usage) ==
    [site |-> "caller", id |-> id, object |-> "chat.completion", model |-> model,
     choices |-> choices, usage |-> usage]

\* the argument strings of native tool calls
ArgumentTexts ==
    {"{\"temp\":72}", "{}", "invalid json{", "", "\"hello\"", "42", "null", "[1,2]"}

NativeToolCalls ==
    { ToolCall("call_123", "function", "test_tool", a) : a \in ArgumentTexts }
    \cup { ToolCall("call_456", "custom", "custom_tool", a) :
                a \in {"{\"temp\":72}", "invalid json{"} }

\* the most tool calls of one response
MaxToolCalls == 2

RECURSIVE ToolCallLists(_)
ToolCallLists(n) ==
    IF n = 0 THEN {<<>>}
    ELSE ToolCallLists(n - 1) \cup
         {Append(l, c) : l \in {x \in ToolCallLists(n - 1) : Len(x) = n - 1},
                         c \in NativeToolCalls}

Responses ==
    { Response("chatcmpl-test", "MiniMax-M2", <<>>, None) }
    \cup { Response("chatcmpl-test", "MiniMax-M2",
                    <<ResponseChoice(ResponseMessage(content, None), "stop")>>,
                    Some(Usage(Some(100), Some(50)))) :
                content \in {None, Some("Hello")} }
    \cup { Response("chatcmpl-test", "MiniMax-M2",
                    <<ResponseChoice(ResponseMessage(None, Some(calls)), "tool_calls")>>,
                    Some(Usage(Some(100), Some(50)))) :
                calls \in ToolCallLists(MaxToolCalls) }

\* a parse failure hands on the raw argument string
ParseArgumentsKeepingRaw(text) ==
    IF JsonParse(text).ok THEN JsonParse(text).value ELSE RawString(text)

\* getToolCalls: try { args = JSON.parse(...) } catch { args = {} }
ParseArguments(text) ==
    IF JsonParse(text).ok THEN JsonParse(text).value ELSE EmptyObject

\* getToolCalls, the map callback
ToCommonToolCall(toolCall) ==
    IF toolCall.type \in {"function", "custom"}
    THEN [id |-> toolCall.id, name |-> toolCall.name,
          arguments |-> ParseArguments(toolCall.arguments)]
    ELSE [id |-> toolCall.id, name |-> "unknown", arguments |-> EmptyObject]

\* getToolCalls()
GetToolCalls(resp) ==
    IF resp.choices = <<>> THEN <<>>
    ELSE IF resp.choices[1].message.tool_calls = None THEN <<>>
    ELSE LET calls == resp.choices[1].message.tool_calls[1]
         IN  [k \in 1..Len(calls) |-> ToCommonToolCall(calls[k])]

\* getText()
GetText(resp) ==
    IF resp.choices = <<>> THEN ""
    ELSE OrElse(resp.choices[1].message.content, "")

\* hasToolCalls()
HasToolCalls(resp) ==
    /\ resp.choices # <<>>
    /\ resp.choices[1].message.tool_calls # None
    /\ Len(resp.choices[1].message.tool_calls[1]) > 0

\* getOriginalResponse()
GetOriginalResponse(resp) == resp

\* the contentMessage and refusalMessage toRefusalResponse is called with
RefusalContents == {"", "Request blocked by policy"}

RefusalMessages == {"refused"}

\* the first choice of the refusal: {...this.response.choices[0], message, finish_reason}
RefusalChoice(resp, contentMessage) ==
    IF resp.choices = <<>>
    THEN [message |-> ResponseMessage(Some(contentMessage), None),
          finish_reason |-> "stop"]
    ELSE [resp.choices[1] EXCEPT
            !.message = ResponseMessage(Some(contentMessage), None),
            !.finish_reason = "stop"]

\* the refusal is written into the held response
ToRefusalResponseInPlace(resp, refusalMessage, contentMessage) ==
    LET refusal == [resp EXCEPT !.choices = <<RefusalChoice(resp, contentMessage)>>]
    IN  [held |-> refusal, result |-> refusal]

\* toRefusalResponse(_refusalMessage, contentMessage): [held, result], held
\* being this.response after the call
ToRefusalResponse(resp, refusalMessage, contentMessage) ==
    [held   |-> resp,
     result |-> [resp EXCEPT !.site = "refusal",
                             !.choices = <<RefusalChoice(resp, contentMessage)>>]]

(***************************************************************************)
(* State machines.  Each specification runs one adapter, the way one       *)
(* proxied HTTP request owns its adapters; the other adapters' variables   *)
(* stay at their idle values.                                              *)
(***************************************************************************)
NoReturn == [op |-> "none", value |-> <<>>]

\* no model listing is in progress
ListingIdle == [file |-> "none", keyed |-> {}, vertexAi |-> FALSE, failing |-> {},
                cache |-> <<>>]

\* an empty secrets table and an empty Vault; created counts the ids the
\* table has handed out
SecretsIdle == [db |-> {}, vault |-> {}, created |-> 0]

\* no pair of adapters was created
PairIdle == [kind |-> "none", heap |-> <<>>, refs |-> <<>>, own |-> <<>>, outs |-> <<>>]

Returned(op, value) == [op |-> op, value |-> value]

IdleRequest == Request("caller", "", <<>>, None, None)

IdleResponse == Response("", "", <<>>, None)

StreamIdle ==
    /\ upstream = {}
    /\ state = NewStreamState
    /\ currentToolCallIndices = <<>>
    /\ chunks = <<>>
    /\ results = <<>>

\* new MiniMaxRequestAdapter(native)
RequestCreated(native) ==
    /\ nativeRequest = native
    /\ request = native
    /\ modifiedModel = None
    /\ toolResultUpdates = <<>>
    /\ lastModelSet = None
    /\ staged = <<>>
    /\ toonApplied = FALSE

RequestIdle == RequestCreated(IdleRequest)

ResponseIdle == response = IdleResponse

(* ----------------------------- stream adapter ------------------------- *)
StreamInit ==
    /\ impl \in Impls
    /\ listing = ListingIdle
    /\ secrets = SecretsIdle
    /\ pair = PairIdle
    /\ upstream \in Upstreams
    /\ state = NewStreamState
    /\ currentToolCallIndices = <<>>
    /\ chunks = <<>>
    /\ results = <<>>
    /\ RequestIdle
    /\ ResponseIdle
    /\ ret = NoReturn

ProcessChunkCall ==
    /\ Len(chunks) < MaxChunks
    /\ \E chunk \in upstream :
        LET r == ProcessChunk(impl, state, currentToolCallIndices, chunk)
        IN  /\ state' = r.state
            /\ currentToolCallIndices' = r.indices
            /\ chunks' = Append(chunks, chunk)
            /\ results' = Append(results, r.result)
            /\ ret' = Returned("processChunk", r.result)
    /\ UNCHANGED <<impl, listing, secrets, pair, upstream, requestVars, response>>

ToProviderResponseCall ==
    /\ ret' = Returned("toProviderResponse", ToProviderResponse(impl, state))
    /\ UNCHANGED <<impl, listing, secrets, pair, streamVars, requestVars, response>>

FormatEndSSECall ==
    /\ ret' = Returned("formatEndSSE", FormatEndSSE(state))
    /\ UNCHANGED <<impl, listing, secrets, pair, streamVars, requestVars, response>>

StreamNext == ProcessChunkCall \/ ToProviderResponseCall \/ FormatEndSSECall

SpecStream == StreamInit /\ [][StreamNext]_vars

(* ----------------------------- request adapter ------------------------ *)
RequestInit ==
    /\ impl \in Impls
    /\ listing = ListingIdle
    /\ secrets = SecretsIdle
    /\ pair = PairIdle
    /\ \E native \in NativeRequests : RequestCreated(native)
    /\ StreamIdle
    /\ ResponseIdle
    /\ ret = NoReturn

\* setModel(model): this.modifiedModel = model
SetModel(modified, model) == Some(model)

SetModelCall ==
    /\ \E model \in Models :
        /\ modifiedModel' = SetModel(modifiedModel, model)
        /\ lastModelSet' = Some(model)
    /\ ret' = NoReturn
    /\ UNCHANGED <<impl, listing, secrets, pair, streamVars, response, nativeRequest, request,
                   toolResultUpdates, staged, toonApplied>>

UpdateToolResultCall ==
    /\ \E id \in UpdateIds, content \in UpdateContents :
        /\ toolResultUpdates' = StageUpdate(toolResultUpdates, id, content)
        /\ staged' = [i \in DOMAIN staged \cup {id} |->
                        IF i = id THEN content ELSE staged[i]]
    /\ ret' = NoReturn
    /\ UNCHANGED <<impl, listing, secrets, pair, streamVars, response, nativeRequest, request,
                   modifiedModel, lastModelSet, toonApplied>>

ApplyToolResultUpdatesCall ==
    /\ \E batch \in UpdateBatches :
        /\ toolResultUpdates' = AssignUpdates(toolResultUpdates, batch)
        /\ staged' = [i \in DOMAIN staged \cup DOMAIN batch |->
                        IF i \in DOMAIN batch THEN batch[i] ELSE staged[i]]
    /\ ret' = NoReturn
    /\ UNCHANGED <<impl, listing, secrets, pair, streamVars, response, nativeRequest, request,
                   modifiedModel, lastModelSet, toonApplied>>

\* applyToonCompression(model): [request, result]
ApplyToonCompression(req, price) ==
    LET converted == ConvertToolResultsToToon(req.messages, price)
    IN  [request |-> [req EXCEPT !.site = "toon", !.messages = converted.messages],
         result  |-> [tokensBefore |-> converted.stats.toonTokensBefore,
                      tokensAfter  |-> converted.stats.toonTokensAfter,
                      costSavings  |-> converted.stats.toonCostSavings]]

ApplyToonCompressionCall ==
    /\ \E price \in TokenPrices :
        LET r == ApplyToonCompression(request, price)
        IN  /\ request' = r.request
            /\ ret' = Returned("applyToonCompression", r.result)
    /\ toonApplied' = TRUE
    /\ UNCHANGED <<impl, listing, secrets, pair, streamVars, response, nativeRequest, modifiedModel,
                   toolResultUpdates, lastModelSet, staged>>

ToProviderRequestCall ==
    /\ ret' = Returned("toProviderRequest",
                       ToProviderRequest(impl, request, modifiedModel, toolResultUpdates))
    /\ UNCHANGED <<impl, listing, secrets, pair, streamVars, response, requestVars>>

RequestNext ==
    \/ SetModelCall
    \/ UpdateToolResultCall
    \/ ApplyToolResultUpdatesCall
    \/ ApplyToonCompressionCall
    \/ ToProviderRequestCall

SpecRequest == RequestInit /\ [][RequestNext]_vars

(* ----------------------------- request messages ----------------------- *)
MessagesInit ==
    /\ impl \in Impls
    /\ listing = ListingIdle
    /\ secrets = SecretsIdle
    /\ pair = PairIdle
    /\ \E messages \in MessageLists(MaxMessages) :
            RequestCreated(Request("caller", "MiniMax-M2", messages, None, None))
    /\ StreamIdle
    /\ ResponseIdle
    /\ ret = NoReturn

GetMessagesCall ==
    /\ ret' = Returned("getMessages", GetMessages(request))
    /\ UNCHANGED <<impl, listing, secrets, pair, streamVars, response, requestVars>>

GetToolResultsCall ==
    /\ ret' = Returned("getToolResults", GetToolResults(request))
    /\ UNCHANGED <<impl, listing, secrets, pair, streamVars, response, requestVars>>

MessagesNext == GetMessagesCall \/ GetToolResultsCall

SpecMessages == MessagesInit /\ [][MessagesNext]_vars

(* ----------------------------- response adapter ----------------------- *)
ResponseInit ==
    /\ impl \in Impls
    /\ listing = ListingIdle
    /\ secrets = SecretsIdle
    /\ pair = PairIdle
    /\ response \in Responses
    /\ StreamIdle
    /\ RequestIdle
    /\ ret = NoReturn

GetToolCallsCall ==
    /\ ret' = Returned("getToolCalls", GetToolCalls(response))
    /\ UNCHANGED <<impl, listing, secrets, pair, streamVars, response, requestVars>>

GetTextCall ==
    /\ ret' = Returned("getText", GetText(response))
    /\ UNCHANGED <<impl, listing, secrets, pair, streamVars, response, requestVars>>

ToRefusalResponseCall ==
    /\ \E refusalMessage \in RefusalMessages, contentMessage \in RefusalContents :
        LET r == ToRefusalResponse(response, refusalMessage, contentMessage)
        IN  /\ response' = r.held
            /\ ret' = Returned("toRefusalResponse",
                               [content |-> contentMessage, response |-> r.result])
    /\ UNCHANGED <<impl, listing, secrets, pair, streamVars, requestVars>>

ResponseNext == GetToolCallsCall \/ GetTextCall \/ ToRefusalResponseCall

SpecResponse == ResponseInit /\ [][ResponseNext]_vars

(***************************************************************************)
(* Stream adapter properties                                               *)
(***************************************************************************)
CarriesUsage(chunk) == chunk.usage # None

CarriesFinishReason(chunk) ==
    chunk.choices # <<>> /\ TruthyStr(chunk.choices[1].finish_reason)

\* C1: processChunk returns isFinal = FALSE for every chunk processed before
\* the first chunk that carries a usage object, whatever finish_reason was seen
\* earlier, and isFinal = TRUE for the chunk that carries usage, with or
\* without choices.
C1_FinalOnlyOnceUsageSeen ==
    \A k \in 1..Len(chunks) :
        /\ (\A j \in 1..k : ~CarriesUsage(chunks[j])) => ~results[k].isFinal
        /\ CarriesUsage(chunks[k]) => results[k].isFinal

\* a finish_reason chunk was processed before any usage and reported not
\* final, and a later usage chunk with a choice was reported final
C1_Witness ==
    \E j, k \in 1..Len(chunks) :
        /\ j < k
        /\ CarriesFinishReason(chunks[j])
        /\ \A i \in 1..j : ~CarriesUsage(chunks[i])
        /\ ~results[j].isFinal
        /\ CarriesUsage(chunks[k]) /\ chunks[k].choices # <<>>
        /\ results[k].isFinal

\* a chunk whose delta carries exactly one tool-call delta, and no usage
IsFragmentChunk(chunk) ==
    /\ ~CarriesUsage(chunk)
    /\ chunk.choices # <<>>
    /\ chunk.choices[1].tool_calls # None
    /\ Len(chunk.choices[1].tool_calls[1]) = 1
    /\ ~CarriesFinishReason(chunk)

FragmentOf(chunk) == chunk.choices[1].tool_calls[1][1]

\* tool-call fragments under one index, then a finish_reason chunk, then a
\* usage-bearing chunk with empty choices
IsFragmentStream(h) ==
    /\ Len(h) >= 4
    /\ \A k \in 1..(Len(h) - 2) :
            /\ IsFragmentChunk(h[k])
            /\ FragmentOf(h[k]).index = FragmentOf(h[1]).index
    /\ LET fin == h[Len(h) - 1]
       IN  /\ CarriesFinishReason(fin)
           /\ ~CarriesUsage(fin)
           /\ fin.choices[1].tool_calls = None
    /\ CarriesUsage(h[Len(h)])
    /\ h[Len(h)].choices = <<>>

\* the argument fragments of h[1..n], concatenated in arrival order
RECURSIVE FragmentsJoined(_, _)
FragmentsJoined(h, n) ==
    IF n = 0 THEN ""
    ELSE FragmentsJoined(h, n - 1) \o OrElse(FragmentOf(h[n]).arguments, "")

\* C2: after tool-call argument fragments delivered in separate chunks under
\* one index, a finish_reason chunk and a usage chunk with empty choices,
\* toProviderResponse() holds exactly one tool call, whose arguments string is
\* the concatenation of the fragments in arrival order, and isFinal was TRUE
\* on the last chunk only.
C2_FragmentsConcatenated ==
    IsFragmentStream(chunks) =>
        LET calls == ToProviderResponse(impl, state).choices[1].message.tool_calls
        IN  /\ calls # None
            /\ Len(calls[1]) = 1
            /\ calls[1][1].function.arguments = FragmentsJoined(chunks, Len(chunks) - 2)
            /\ \A k \in 1..Len(chunks) : results[k].isFinal <=> (k = Len(chunks))

\* the three fragments of {"location":"NY"} arrived in order in three chunks
C2_Witness ==
    /\ IsFragmentStream(chunks)
    /\ Len(chunks) = 5
    /\ FragmentOf(chunks[1]).arguments = Some("{\"location\":")
    /\ FragmentOf(chunks[2]).arguments = Some("\"NY\"")
    /\ FragmentOf(chunks[3]).arguments = Some("}")
    /\ ToProviderResponse(impl, state).choices[1].message.tool_calls[1][1].function.arguments
            = "{\"location\":\"NY\"}"


(***************************************************************************)
(* Request adapter properties                                              *)
(***************************************************************************)
\* no setModel, updateToolResult / applyToolResultUpdates or
\* applyToonCompression call was made on the adapter
Untouched == lastModelSet = None /\ staged = <<>> /\ ~toonApplied

\* the model names that contain "MiniMax-M2"
M2Names == {"MiniMax-M2", "MiniMax-M2.1"}

\* C3 as stated: an adapter on which no mutation was invoked returns from
\* toProviderRequest() a request equal to the native request R, field by
\* field, for every model name.
C3_RoundTripIdentity ==
    (ret.op = "toProviderRequest" /\ Untouched) =>
        /\ ret.value.model = nativeRequest.model
        /\ ret.value.messages = nativeRequest.messages
        /\ ret.value.stream = nativeRequest.stream
        /\ ret.value.reasoning_split = nativeRequest.reasoning_split

\* C3 as amended: an adapter on which no mutation was invoked returns from
\* toProviderRequest() a request with R's model, messages and other fields;
\* its reasoning_split is R's, except that the part_004 implementation sets
\* it to true whenever the model name contains "MiniMax-M2".
C3_RoundTripUpToReasoningSplit ==
    (ret.op = "toProviderRequest" /\ Untouched) =>
        /\ ret.value.model = nativeRequest.model
        /\ ret.value.messages = nativeRequest.messages
        /\ ret.value.stream = nativeRequest.stream
        /\ ret.value.reasoning_split =
                IF impl = "split" /\ nativeRequest.model \in M2Names
                THEN Some(TRUE)
                ELSE nativeRequest.reasoning_split

\* an untouched adapter of the part_004 implementation returned a request
\* for model "MiniMax-M2.1" whose reasoning_split is true where R's is false
C3_Witness ==
    /\ ret.op = "toProviderRequest"
    /\ Untouched
    /\ impl = "split"
    /\ nativeRequest.model = "MiniMax-M2.1"
    /\ nativeRequest.reasoning_split = Some(FALSE)
    /\ ret.value.reasoning_split = Some(TRUE)
    /\ ret.value.messages = nativeRequest.messages

\* the model the adapter has to report: the argument of the last setModel
\* call, the original request's model when there was none
ExpectedModel == IF lastModelSet # None THEN lastModelSet[1] ELSE nativeRequest.model

\* C4: after any sequence of setModel calls ending with setModel(X),
\* getModel() returns X and toProviderRequest().model is X, whatever the
\* original model; with no setModel call both are the original model.
C4_ModelOverridePrecedence ==
    /\ GetModel(request, modifiedModel) = ExpectedModel
    /\ ToProviderRequest(impl, request, modifiedModel, toolResultUpdates).model
            = ExpectedModel
    /\ ret.op = "toProviderRequest" => ret.value.model = ExpectedModel

\* setModel was called last with a model other than the original one, and
\* toProviderRequest() returned a request for it
C4_Witness ==
    /\ lastModelSet = Some("abab6.5s-chat")
    /\ nativeRequest.model = "MiniMax-M2"
    /\ GetModel(request, modifiedModel) = "abab6.5s-chat"
    /\ ret.op = "toProviderRequest"
    /\ ret.value.model = "abab6.5s-chat"

\* C5: setModel, updateToolResult and toProviderRequest never modify the
\* native request held by the adapter: as long as only these were called,
\* getOriginalRequest() is the object handed to the constructor, with the
\* model and messages it had then, and the object toProviderRequest()
\* returned is another object.
C5_StagingLeavesHeldRequest ==
    ~toonApplied =>
        /\ GetOriginalRequest(request) = nativeRequest
        /\ ret.op = "toProviderRequest" =>
                ret.value.site # GetOriginalRequest(request).site

\* a model and an update were staged, toProviderRequest() returned a request
\* that carries both, and the held request still has neither
C5_Witness ==
    /\ ~toonApplied
    /\ lastModelSet # None
    /\ lastModelSet[1] # nativeRequest.model
    /\ staged # <<>>
    /\ ret.op = "toProviderRequest"
    /\ ret.value.model = lastModelSet[1]
    /\ ret.value.messages # request.messages
    /\ request = nativeRequest

\* C6: getOriginalRequest() returns the native request exactly as received
\* at construction after any sequence of adapter operations, including
\* applyToonCompression: its model and its messages, tool-result contents
\* included, are the original ones.
C6_OriginalRequestPristine ==
    /\ GetOriginalRequest(request).model = nativeRequest.model
    /\ GetOriginalRequest(request).messages = nativeRequest.messages

\* the tool message of the held list at position k, with the content staged
\* for its id
WithStagedContent(held, k) ==
    IF held[k].role = "tool" /\ held[k].tool_call_id \in DOMAIN staged
    THEN [held[k] EXCEPT !.content = StringContent(staged[held[k].tool_call_id])]
    ELSE held[k]

\* C7: after any sequence of updateToolResult calls with arbitrary string
\* contents, toProviderRequest() returns the held messages in the same number
\* and order, every tool message with a staged id carrying the content of the
\* last call for that id and every other message identical to the held one.
C7_StagedUpdatesApplied ==
    ret.op = "toProviderRequest" =>
        /\ Len(ret.value.messages) = Len(request.messages)
        /\ \A k \in 1..Len(request.messages) :
                ret.value.messages[k] = WithStagedContent(request.messages, k)

(***************************************************************************)
(* Response adapter properties                                             *)
(***************************************************************************)
\* the native tool calls of the first choice
NativeCalls ==
    IF response.choices = <<>> THEN <<>>
    ELSE OrElse(response.choices[1].message.tool_calls, <<>>)

\* C8: getToolCalls() returns one entry per native tool call of the first
\* choice, in the same order, each with the call's id and name; the entry of
\* a call whose argument string is not valid JSON has arguments {}; the list
\* is empty when there is no choice or no tool_calls.
C8_ToolCallsSurviveBadJson ==
    ret.op = "getToolCalls" =>
        /\ Len(ret.value) = Len(NativeCalls)
        /\ \A k \in 1..Len(NativeCalls) :
                /\ ret.value[k].id = NativeCalls[k].id
                /\ ret.value[k].name = NativeCalls[k].name
                /\ NativeCalls[k].arguments \in JsonInvalidTexts =>
                        ret.value[k].arguments = EmptyObject

\* getToolCalls() returned two entries, the first for a call with malformed
\* arguments and the second for a call with a JSON object
C8_Witness ==
    /\ ret.op = "getToolCalls"
    /\ Len(NativeCalls) = 2
    /\ NativeCalls[1].arguments = "invalid json{"
    /\ NativeCalls[2].arguments = "{\"temp\":72}"
    /\ NativeCalls[1].id # NativeCalls[2].id
    /\ ret.value[1] = [id |-> NativeCalls[1].id, name |-> NativeCalls[1].name,
                       arguments |-> EmptyObject]
    /\ ret.value[2].arguments = JsonValue("object", "{\"temp\":72}")

\* C9: every CommonToolCall returned by getToolCalls() has arguments that is
\* an object, for every native argument string: unparseable, JSON object, or
\* JSON for a string, a number, null or an array.
C9_ArgumentsAlwaysObject ==
    ret.op = "getToolCalls" =>
        \A k \in 1..Len(ret.value) : ret.value[k].arguments.kind = "object"

(***************************************************************************)
(* Tool-call to tool-result correlation                                    *)
(***************************************************************************)
HasCall(message, id) ==
    /\ message.role = "assistant"
    /\ message.tool_calls # None
    /\ \E c \in 1..Len(message.tool_calls[1]) : message.tool_calls[1][c].id = id

\* the positions before p of the assistant messages that hold a call with id
PrecedingCallers(messages, p, id) ==
    {q \in 1..(p - 1) : HasCall(messages[q], id)}

\* the name of the call with id in the nearest such message before p
NearestPrecedingName(messages, p, id) ==
    LET q == CHOOSE x \in PrecedingCallers(messages, p, id) :
                \A y \in PrecedingCallers(messages, p, id) : x >= y
        calls == messages[q].tool_calls[1]
        c == CHOOSE x \in 1..Len(calls) :
                calls[x].id = id /\ \A y \in 1..(x - 1) : calls[y].id # id
    IN  calls[c].name

\* C10: for a tool message at position p with correlation id t, the resolved
\* tool name is the name of the tool call with id t in the nearest assistant
\* message that precedes p, also when the id occurs in several assistant
\* messages.
C10_NearestPrecedingCallSelected ==
    ret.op = "getMessages" =>
        \A p \in 1..Len(request.messages) :
            LET m == request.messages[p]
            IN  (m.role = "tool" /\ PrecedingCallers(request.messages, p, m.tool_call_id) # {})
                    => /\ ret.value[p].toolCalls # None
                       /\ ret.value[p].toolCalls[1][1].name
                            = NearestPrecedingName(request.messages, p, m.tool_call_id)

\* C11: getMessages() returns one CommonMessage per native message, in order
\* and with the same role, and every returned message with role tool carries
\* a toolCalls list holding exactly the one tool result whose id is the
\* message's tool_call_id, whether or not an assistant tool call with that id
\* exists in the request.
C11_ToolMessagesCarryTheirResult ==
    ret.op = "getMessages" =>
        /\ Len(ret.value) = Len(request.messages)
        /\ \A p \in 1..Len(request.messages) :
            /\ ret.value[p].role = request.messages[p].role
            /\ request.messages[p].role = "tool" =>
                /\ ret.value[p].toolCalls # None
                /\ Len(ret.value[p].toolCalls[1]) = 1
                /\ ret.value[p].toolCalls[1][1].id = request.messages[p].tool_call_id

\* the tool-role messages of the held request, in message order
ToolMessagesOf(messages) == SelectSeq(messages, LAMBDA m : m.role = "tool")

\* C12: getToolResults() returns one result per tool-role message of the
\* request, in message order and wherever the message sits relative to
\* assistant messages, with id equal to the message's tool_call_id; when no
\* assistant tool call has that id the result's name is "unknown".
C12_OneResultPerToolMessage ==
    ret.op = "getToolResults" =>
        LET tools == ToolMessagesOf(request.messages)
        IN  /\ Len(ret.value) = Len(tools)
            /\ \A k \in 1..Len(tools) :
                /\ ret.value[k].id = tools[k].tool_call_id
                /\ (\A q \in 1..Len(request.messages) :
                        ~HasCall(request.messages[q], tools[k].tool_call_id))
                    => ret.value[k].name = "unknown"

\* getToolResults() returned two results for a request whose first message is
\* a tool message no assistant call matches and whose last one answers the
\* assistant message between them
C12_Witness ==
    /\ ret.op = "getToolResults"
    /\ Len(request.messages) = 3
    /\ request.messages[1].role = "tool"
    /\ request.messages[2].role = "assistant"
    /\ request.messages[3].role = "tool"
    /\ ~HasCall(request.messages[2], request.messages[1].tool_call_id)
    /\ HasCall(request.messages[2], request.messages[3].tool_call_id)
    /\ Len(ret.value) = 2
    /\ ret.value[1].name = "unknown"
    /\ ret.value[2].name = "get_weather"

(***************************************************************************)
(* Compression properties                                                  *)
(***************************************************************************)
\* a tool-result message compression must leave alone: its content is no
\* string, or is a string that is not valid JSON after unwrapping
NotJsonToolResult(message) ==
    /\ message.role = "tool"
    /\ \/ ~message.content.isString
       \/ UnwrapToolContent(message.content.text) \in JsonInvalidTexts

\* the tool-result messages whose content is valid JSON after unwrapping
JsonToolResults(messages) ==
    SelectSeq(messages, LAMBDA m : m.role = "tool" /\ ~NotJsonToolResult(m))

RECURSIVE TokensOfUnwrapped(_)
TokensOfUnwrapped(messages) ==
    IF messages = <<>> THEN 0
    ELSE CountTokens(UnwrapToolContent(Head(messages).content.text))
            + TokensOfUnwrapped(Tail(messages))

RECURSIVE TokensOfContent(_)
TokensOfContent(messages) ==
    IF messages = <<>> THEN 0
    ELSE CountTokens(Head(messages).content.text) + TokensOfContent(Tail(messages))

\* the positions of the tool-result messages with valid JSON content
JsonPositions(messages) ==
    {k \in 1..Len(messages) : messages[k].role = "tool" /\ ~NotJsonToolResult(messages[k])}

\* the messages of a list at the positions of a set, in order
Restricted(messages, positions) ==
    LET RECURSIVE pick(_)
        pick(k) == IF k > Len(messages) THEN <<>>
                   ELSE (IF k \in positions THEN <<messages[k]>> ELSE <<>>) \o pick(k + 1)
    IN  pick(1)

\* C13: applyToonCompression leaves every tool-result message whose content
\* is not valid JSON after unwrapping, or is not a string, exactly unchanged,
\* and such a message adds nothing to the token totals: the totals are those
\* of the valid-JSON tool results alone.
C13_CompressionLeavesNonJson ==
    [][ret'.op = "applyToonCompression" =>
        /\ Len(request'.messages) = Len(request.messages)
        /\ \A k \in 1..Len(request.messages) :
                NotJsonToolResult(request.messages[k])
                    => request'.messages[k] = request.messages[k]
        /\ ret'.value.tokensBefore \in
                {None, Some(TokensOfUnwrapped(JsonToolResults(request.messages)))}
        /\ ret'.value.tokensAfter \in
                {None, Some(TokensOfContent(
                    Restricted(request'.messages, JsonPositions(request.messages))))}
      ]_vars

\* applyToonCompression ran on the weather request: the plain-text result
\* "sunny" is as received, the JSON result was rewritten, and the totals are
\* those of the JSON result alone
C13_Witness ==
    /\ ret.op = "applyToonCompression"
    /\ nativeRequest.messages = WeatherConversation
    /\ request.messages[4] = ToolMessage("call_2", StringContent("sunny"))
    /\ request.messages[3] = ToolMessage("call_1", StringContent("temp: 72"))
    /\ ret.value.tokensBefore = Some(6)
    /\ ret.value.tokensAfter = Some(4)

\* C14: applyToonCompression returns tokensBefore = null and tokensAfter =
\* null exactly when no tool-result message was compressed; otherwise both are
\* the sums over the compressed messages, also when nothing was saved; and
\* costSavings is non-null only when tokensBefore - tokensAfter > 0 and a
\* token price exists for the model.
C14_NullStatsMeanNothingCompressed ==
    [][ret'.op = "applyToonCompression" =>
        LET compressed == JsonPositions(request.messages)
            before == TokensOfUnwrapped(Restricted(request.messages, compressed))
            after  == TokensOfContent(Restricted(request'.messages, compressed))
        IN  /\ (ret'.value.tokensBefore = None) <=> (compressed = {})
            /\ (ret'.value.tokensAfter = None) <=> (compressed = {})
            /\ compressed # {} =>
                /\ ret'.value.tokensBefore = Some(before)
                /\ ret'.value.tokensAfter = Some(after)
            /\ ret'.value.costSavings # None => before - after > 0
            /\ \A price \in TokenPrices :
                    ApplyToonCompression(request, price).result.costSavings # None
                        => price # None
      ]_vars

\* applyToonCompression compressed a tool result and saved nothing: both
\* totals are numbers, equal to each other, and there is no cost saving
C14_Witness ==
    /\ ret.op = "applyToonCompression"
    /\ nativeRequest.messages = WrappedConversation
    /\ ret.value.tokensBefore = Some(1)
    /\ ret.value.tokensAfter = Some(1)
    /\ ret.value.costSavings = None

(***************************************************************************)
(* minimaxAdapterFactory.extractErrorMessage                               *)
(***************************************************************************)
\* a JavaScript value, as far as the function looks at it: its typeof and,
\* for a string or a number, its text
JsValue(type, text) == [type |-> type, text |-> text]

JsUndefined == JsValue("undefined", "")

JsString(text) == JsValue("string", text)

\* the value as a condition (if (v))
Truthy(v) ==
    CASE v.type = "string"    -> v.text # ""
      [] v.type = "number"    -> v.text # "0"
      [] v.type = "object"    -> TRUE
      [] v.type = "undefined" -> FALSE

\* a thrown value.  isError: it is an instance of Error; nested: what
\* error.error.message reads (undefined when a link of the path is missing);
\* message: what error.message reads; string: the text String(error) gives,
\* or None when the conversion throws a TypeError
ErrorValue(isError, nested, message, string) ==
    [isError |-> isError, nested |-> nested, message |-> message, string |-> string]

ErrorValues ==
    { \* the SDK's APIError: an Error that carries the response envelope
      ErrorValue(TRUE, JsString("bad key"), JsString("401 bad key"), Some("Error: 401 bad key")),
      \* {error: {message: "bad key"}}
      ErrorValue(FALSE, JsString("bad key"), JsUndefined, Some("[object Object]")),
      \* {error: {message: ""}}
      ErrorValue(FALSE, JsString(""), JsUndefined, Some("[object Object]")),
      \* {error: {message: 42}}
      ErrorValue(FALSE, JsValue("number", "42"), JsUndefined, Some("[object Object]")),
      \* {error: {message: {code: 1}}}
      ErrorValue(FALSE, JsValue("object", ""), JsUndefined, Some("[object Object]")),
      \* new Error("boom")
      ErrorValue(TRUE, JsUndefined, JsString("boom"), Some("Error: boom")),
      \* new Error("")
      ErrorValue(TRUE, JsUndefined, JsString(""), Some("Error")),
      \* {message: "boom"}
      ErrorValue(FALSE, JsUndefined, JsString("boom"), Some("[object Object]")),
      \* {}
      ErrorValue(FALSE, JsUndefined, JsUndefined, Some("[object Object]")),
      \* "timeout" and "", thrown as strings
      ErrorValue(FALSE, JsUndefined, JsUndefined, Some("timeout")),
      ErrorValue(FALSE, JsUndefined, JsUndefined, Some("")),
      \* undefined
      ErrorValue(FALSE, JsUndefined, JsUndefined, Some("undefined")),
      \* Object.create(null): it has no toString to convert it with
      ErrorValue(FALSE, JsUndefined, JsUndefined, None) }

\* how a call ends: with a returned value, or with a thrown exception
Returns(v) == [thrown |-> FALSE, value |-> v]

Throws == [thrown |-> TRUE, value |-> JsUndefined]

\* extractErrorMessage(error)
ExtractErrorMessage(im, error) ==
    IF im = "v2"
    THEN (IF Truthy(error.nested) THEN Returns(error.nested)
          ELSE IF Truthy(error.message) THEN Returns(error.message)
          ELSE IF error.string = None THEN Throws
          ELSE Returns(JsString(error.string[1])))
    ELSE (IF error.nested.type = "string" THEN Returns(error.nested)
          ELSE IF error.isError THEN Returns(error.message)
          ELSE Returns(JsString("Internal server error")))

\* the request's own stream flag decides how the call is made
ExecuteStreamAsRequested(im, req) ==
    [model |-> req.model,
     messages |-> req.messages,
     stream |-> req.stream,
     stream_options |-> IF req.stream = Some(TRUE)
                        THEN Some([include_usage |-> TRUE]) ELSE None,
     reasoning_split |-> IF im = "v2"
                         THEN (IF req.reasoning_split = Some(TRUE) THEN Some(TRUE) ELSE None)
                         ELSE req.reasoning_split]

\* executeStream(client, request): the params handed to
\* client.chat.completions.create
ExecuteStream(im, req) ==
    [model |-> req.model,
     messages |-> req.messages,
     stream |-> Some(TRUE),
     stream_options |-> Some([include_usage |-> TRUE]),
     reasoning_split |-> IF im = "v2"
                         THEN (IF req.reasoning_split = Some(TRUE) THEN Some(TRUE) ELSE None)
                         ELSE req.reasoning_split]

(* ----------------------------- provider factory ----------------------- *)
\* one proxied request: its request adapter is created, and the factory's
\* functions are called for it
FactoryInit ==
    /\ impl \in Impls
    /\ listing = ListingIdle
    /\ secrets = SecretsIdle
    /\ pair = PairIdle
    /\ \E native \in NativeRequests : RequestCreated(native)
    /\ StreamIdle
    /\ ResponseIdle
    /\ ret = NoReturn

\* the upstream call failed with error, and the handler asks for its message
ExtractErrorMessageCall ==
    /\ \E error \in ErrorValues :
        ret' = Returned("extractErrorMessage",
                        [error |-> error, outcome |-> ExtractErrorMessage(impl, error)])
    /\ UNCHANGED <<impl, listing, secrets, pair, streamVars, response, requestVars>>

\* the handler streams the adapter's provider request
ExecuteStreamCall ==
    /\ LET req == ToProviderRequest(impl, request, modifiedModel, toolResultUpdates)
       IN  ret' = Returned("executeStream",
                           [request |-> req, params |-> ExecuteStream(impl, req)])
    /\ UNCHANGED <<impl, listing, secrets, pair, streamVars, response, requestVars>>

FactoryNext == ExtractErrorMessageCall \/ ExecuteStreamCall

SpecFactory == FactoryInit /\ [][FactoryNext]_vars

\* C15: extractErrorMessage(error) never throws and always returns a
\* non-empty string: the nested error.message when the error carries one,
\* otherwise the top-level message of an Error or of any object that has one,
\* otherwise a fallback string.
C15_ErrorMessageAlwaysNonEmptyString ==
    ret.op = "extractErrorMessage" =>
        LET error == ret.value.error
            out   == ret.value.outcome
        IN  /\ ~out.thrown
            /\ out.value.type = "string"
            /\ out.value.text # ""
            /\ (error.nested.type = "string" /\ error.nested.text # "")
                    => out.value = error.nested
            /\ (error.nested = JsUndefined /\ error.message.type = "string"
                    /\ error.message.text # "")
                    => out.value = error.message

(***************************************************************************)
(* Refusal responses                                                       *)
(***************************************************************************)
\* C16: toRefusalResponse(refusalMessage, contentMessage) returns a new
\* response whose one choice has finish_reason "stop" and a message with
\* content contentMessage and no tool calls, whose id, model, usage and every
\* other top-level field are those of the wrapped response; the wrapped
\* response is unchanged: getOriginalResponse(), getText() and getToolCalls()
\* give the same results after the call as before it.
C16_RefusalKeepsTopLevelFields ==
    [][ret'.op = "toRefusalResponse" =>
        LET out == ret'.value.response
        IN  /\ out.site # response.site
            /\ Len(out.choices) = 1
            /\ out.choices[1].finish_reason = "stop"
            /\ out.choices[1].message.content = Some(ret'.value.content)
            /\ out.choices[1].message.tool_calls = None
            /\ DOMAIN out = DOMAIN response
            /\ \A f \in DOMAIN response \ {"site", "choices"} : out[f] = response[f]
            /\ GetOriginalResponse(response') = GetOriginalResponse(response)
            /\ GetText(response') = GetText(response)
            /\ GetToolCalls(response') = GetToolCalls(response)
      ]_vars

\* toRefusalResponse was called on a response that holds tool calls and a
\* usage: the refusal carries the content, no tool calls and the same usage,
\* and the wrapped response still has its tool calls
C16_Witness ==
    /\ ret.op = "toRefusalResponse"
    /\ HasToolCalls(response)
    /\ response.usage = Some(Usage(Some(100), Some(50)))
    /\ ret.value.content = "Request blocked by policy"
    /\ ret.value.response.choices
            = <<ResponseChoice(ResponseMessage(Some("Request blocked by policy"), None), "stop")>>
    /\ ret.value.response.usage = response.usage
    /\ ret.value.response.id = "chatcmpl-test"

(***************************************************************************)
(* Usage of the synthesized response                                       *)
(***************************************************************************)
\* the positions of the processed chunks that carry a usage
UsagePositions == {k \in 1..Len(chunks) : CarriesUsage(chunks[k])}

\* the usage of the last processed chunk that carries one
LastUsage ==
    chunks[CHOOSE k \in UsagePositions : \A j \in UsagePositions : k >= j].usage[1]

\* C17: the prompt_tokens, completion_tokens and total_tokens of
\* toProviderResponse() are the values of the usage chunk that was processed,
\* and are all 0 when no usage-bearing chunk was processed.
C17_UsageMatchesUsageChunk ==
    ret.op = "toProviderResponse" =>
        IF UsagePositions = {}
        THEN ret.value.usage = [prompt_tokens |-> 0, completion_tokens |-> 0,
                                total_tokens |-> 0]
        ELSE /\ ret.value.usage.prompt_tokens = OrElse(LastUsage.prompt_tokens, 0)
             /\ ret.value.usage.completion_tokens = OrElse(LastUsage.completion_tokens, 0)
             /\ ret.value.usage.total_tokens = OrElse(LastUsage.total_tokens, 0)

\* C17, amended: prompt_tokens and completion_tokens of toProviderResponse()
\* are those of the last usage chunk processed (0 for one the chunk lacks),
\* total_tokens is their sum, and all three are 0 when no usage-bearing chunk
\* was processed.
C17_UsageFromRecordedTokens ==
    ret.op = "toProviderResponse" =>
        IF UsagePositions = {}
        THEN ret.value.usage = [prompt_tokens |-> 0, completion_tokens |-> 0,
                                total_tokens |-> 0]
        ELSE /\ ret.value.usage.prompt_tokens = OrElse(LastUsage.prompt_tokens, 0)
             /\ ret.value.usage.completion_tokens = OrElse(LastUsage.completion_tokens, 0)
             /\ ret.value.usage.total_tokens =
                    OrElse(LastUsage.prompt_tokens, 0)
                        + OrElse(LastUsage.completion_tokens, 0)

\* toProviderResponse() was called after two usage chunks, the last of them
\* reporting a total that is not the sum of its prompt and completion tokens
C17_Witness ==
    /\ ret.op = "toProviderResponse"
    /\ Cardinality(UsagePositions) = 2
    /\ LastUsage = UsageTotalling(Some(3), Some(4), Some(9))
    /\ ret.value.usage = [prompt_tokens |-> 3, completion_tokens |-> 4,
                          total_tokens |-> 7]

(***************************************************************************)
(* Two adapters from the factory.  heap holds the adapter objects, refs the *)
(* object each of the two adapters is; own and outs are histories: the     *)
(* calls made on each adapter and what was observed after each call.       *)
(***************************************************************************)
\* the most calls made on one adapter of the pair
MaxPairCalls == 2

\* new MiniMaxStreamAdapter(): its state and its index map
StreamAdapterObject ==
    [state |-> NewStreamState, currentToolCallIndices |-> <<>>]

\* the factory hands out the stream adapter it made first
CreateStreamAdapterReusing(heap) ==
    IF heap = <<>>
    THEN [heap |-> Append(heap, StreamAdapterObject), ref |-> 1]
    ELSE [heap |-> heap, ref |-> 1]

\* createStreamAdapter(): a new object on the heap
CreateStreamAdapter(heap) ==
    [heap |-> Append(heap, StreamAdapterObject), ref |-> Len(heap) + 1]

\* new MiniMaxRequestAdapter(native): its three fields
RequestAdapterObject(native) ==
    [request |-> native, modifiedModel |-> None, toolResultUpdates |-> <<>>]

\* the factory hands out the request adapter it made first
CreateRequestAdapterReusing(heap, native) ==
    IF heap = <<>>
    THEN [heap |-> Append(heap, RequestAdapterObject(native)), ref |-> 1]
    ELSE [heap |-> heap, ref |-> 1]

\* createRequestAdapter(native): a new object on the heap
CreateRequestAdapter(heap, native) ==
    [heap |-> Append(heap, RequestAdapterObject(native)), ref |-> Len(heap) + 1]

\* the chunks fed to the adapters of a pair
PairChunks ==
    { TextChunk("Hel"),
      ToolChunk(<<ToolCallDelta(0, Some("call_1"), Some("get_weather"),
                                Some("{\"location\":"))>>),
      ToolChunk(<<ToolCallDelta(0, None, None, Some("\"NY\""))>>),
      UsageChunk(Usage(Some(10), Some(5))) }

\* the request both request adapters of a pair are created for
PairRequest ==
    Request("caller", "MiniMax-M2", WeatherConversation, Some(TRUE), None)

\* the calls made on the request adapters of a pair
PairCalls ==
    { [op |-> "setModel", id |-> "", text |-> "abab6.5s-chat"],
      [op |-> "setModel", id |-> "", text |-> "MiniMax-M2.1"],
      [op |-> "updateToolResult", id |-> "call_1", text |-> "updated"],
      [op |-> "updateToolResult", id |-> "call_2", text |-> "updated"] }

\* processChunk on a stream adapter object: [object, result]
StreamObjectAfter(im, object, chunk) ==
    LET r == ProcessChunk(im, object.state, object.currentToolCallIndices, chunk)
    IN  [object |-> [state |-> r.state, currentToolCallIndices |-> r.indices],
         result |-> r.result]

\* what a caller sees of a stream adapter after a call: the call's result, the
\* accumulated state and the response toProviderResponse() synthesizes
StreamObserved(im, after) ==
    [result |-> after.result, state |-> after.object.state,
     response |-> ToProviderResponse(im, after.object.state)]

\* setModel or updateToolResult on a request adapter object
RequestObjectAfter(object, call) ==
    IF call.op = "setModel"
    THEN [object EXCEPT !.modifiedModel = SetModel(object.modifiedModel, call.text)]
    ELSE [object EXCEPT !.toolResultUpdates =
                StageUpdate(object.toolResultUpdates, call.id, call.text)]

\* what a caller sees of a request adapter: getModel() and toProviderRequest()
RequestObserved(im, object) ==
    [model |-> GetModel(object.request, object.modifiedModel),
     provider |-> ToProviderRequest(im, object.request, object.modifiedModel,
                                    object.toolResultUpdates)]

PairInit ==
    /\ impl \in Impls
    /\ listing = ListingIdle
    /\ secrets = SecretsIdle
    /\ \/ LET a == CreateStreamAdapter(<<>>)
              b == CreateStreamAdapter(a.heap)
          IN  pair = [kind |-> "stream", heap |-> b.heap, refs |-> <<a.ref, b.ref>>,
                      own |-> << <<>>, <<>> >>, outs |-> << <<>>, <<>> >>]
       \/ LET a == CreateRequestAdapter(<<>>, PairRequest)
              b == CreateRequestAdapter(a.heap, PairRequest)
          IN  pair = [kind |-> "request", heap |-> b.heap, refs |-> <<a.ref, b.ref>>,
                      own |-> << <<>>, <<>> >>, outs |-> << <<>>, <<>> >>]
    /\ StreamIdle
    /\ RequestIdle
    /\ ResponseIdle
    /\ ret = NoReturn

\* processChunk(chunk) on adapter i of the pair
PairProcessChunkCall ==
    /\ pair.kind = "stream"
    /\ \E i \in 1..2, chunk \in PairChunks :
        /\ Len(pair.own[i]) < MaxPairCalls
        /\ LET after == StreamObjectAfter(impl, pair.heap[pair.refs[i]], chunk)
           IN  /\ pair' = [pair EXCEPT
                            !.heap[pair.refs[i]] = after.object,
                            !.own[i] = Append(@, chunk),
                            !.outs[i] = Append(@, StreamObserved(impl, after))]
               /\ ret' = Returned("processChunk", after.result)
    /\ UNCHANGED <<impl, listing, secrets, streamVars, requestVars, response>>

\* toProviderResponse() on adapter i of the pair
PairToProviderResponseCall ==
    /\ pair.kind = "stream"
    /\ \E i \in 1..2 :
        ret' = Returned("toProviderResponse",
                        [adapter |-> i,
                         response |-> ToProviderResponse(impl, pair.heap[pair.refs[i]].state)])
    /\ UNCHANGED <<impl, listing, secrets, pair, streamVars, requestVars, response>>

\* setModel(model) or updateToolResult(id, content) on adapter i of the pair
PairRequestCall ==
    /\ pair.kind = "request"
    /\ \E i \in 1..2, call \in PairCalls :
        /\ Len(pair.own[i]) < MaxPairCalls
        /\ LET after == RequestObjectAfter(pair.heap[pair.refs[i]], call)
           IN  pair' = [pair EXCEPT
                            !.heap[pair.refs[i]] = after,
                            !.own[i] = Append(@, call),
                            !.outs[i] = Append(@, RequestObserved(impl, after))]
    /\ ret' = NoReturn
    /\ UNCHANGED <<impl, listing, secrets, streamVars, requestVars, response>>

PairNext ==
    \/ PairProcessChunkCall
    \/ PairToProviderResponseCall
    \/ PairRequestCall

SpecPair == PairInit /\ [][PairNext]_vars

(***************************************************************************)
(* Determinism and isolation of adapters                                   *)
(***************************************************************************)
\* the object of adapter i of the pair
PairObject(i) == pair.heap[pair.refs[i]]

RECURSIVE StreamAlone(_, _)
StreamAlone(im, fed) ==
    IF fed = <<>> THEN [object |-> StreamAdapterObject, outs |-> <<>>]
    ELSE LET before == StreamAlone(im, SubSeq(fed, 1, Len(fed) - 1))
             after  == StreamObjectAfter(im, before.object, fed[Len(fed)])
         IN  [object |-> after.object,
              outs |-> Append(before.outs, StreamObserved(im, after))]

\* a request adapter on which only the calls of made were made: [object, outs]
RECURSIVE RequestAlone(_, _, _)
RequestAlone(im, native, made) ==
    IF made = <<>> THEN [object |-> RequestAdapterObject(native), outs |-> <<>>]
    ELSE LET before == RequestAlone(im, native, SubSeq(made, 1, Len(made) - 1))
             after  == RequestObjectAfter(before.object, made[Len(made)])
         IN  [object |-> after,
              outs |-> Append(before.outs, RequestObserved(im, after))]

\* C19: for two stream adapters, or two request adapters, obtained from the
\* factory, under any interleaving of processChunk calls (setModel and
\* updateToolResult calls) on the two, the state and the outputs of each
\* adapter are what they would be had only its own calls run.
C19_NoCrossRequestState ==
    pair.kind # "none" =>
        \A i \in 1..2 :
            LET alone == IF pair.kind = "stream"
                         THEN StreamAlone(impl, pair.own[i])
                         ELSE RequestAlone(impl, PairRequest, pair.own[i])
            IN  /\ PairObject(i) = alone.object
                /\ pair.outs[i] = alone.outs

\* two request adapters for the same request: a model was set and an update
\* staged on the first, another model was set on the second, and each hands
\* out its own model and messages
C19_Witness ==
    /\ pair.kind = "request"
    /\ Len(pair.own[1]) = 2
    /\ Len(pair.own[2]) = 1
    /\ pair.own[1][1].op = "setModel"
    /\ pair.own[1][2].op = "updateToolResult"
    /\ pair.own[2][1].op = "setModel"
    /\ pair.own[2][1].text # pair.own[1][1].text
    /\ pair.outs[1][2].model = pair.own[1][1].text
    /\ pair.outs[2][1].model = pair.own[2][1].text
    /\ pair.outs[1][2].provider.messages # PairRequest.messages
    /\ pair.outs[2][1].provider.messages = PairRequest.messages

(***************************************************************************)
(* Server-sent event frames                                                *)
(***************************************************************************)
\* a frame of the form `data: <payload>\n\n`
IsDataFrame(frame) == frame.prefix = "data: " /\ frame.suffix = "\n\n"

\* the positions of the processed chunks that recorded a finish_reason
FinishPositions == {k \in 1..Len(chunks) : CarriesFinishReason(chunks[k])}

\* the finish_reason recorded last, "stop" when none was
LastFinishReason ==
    IF FinishPositions = {} THEN "stop"
    ELSE chunks[CHOOSE k \in FinishPositions :
                    \A j \in FinishPositions : k >= j].choices[1].finish_reason[1]

ListingFiles == {"routes.models", "chat-models"}

\* how many providers' models endpoints fail at the same time
MaxFailing == 1

\* the values of query.provider the route is called with
ListingQueries == {None, Some("openai")}

\* the providers of a file, in the order of its modelFetchers record
SupportedProviders(file) ==
    IF file = "routes.models"
    THEN <<"anthropic", "openai", "gemini", "vllm", "ollama">>
    ELSE <<"anthropic", "openai", "gemini", "minimax">>

ProvidersOf(file) ==
    {SupportedProviders(file)[k] : k \in 1..Len(SupportedProviders(file))}

ModelInfo(provider, id) == [id |-> id, provider |-> provider]

\* what a provider's models endpoint lists when it answers
UpstreamModels(provider) ==
    CASE provider = "openai" -> <<ModelInfo(provider, "gpt-a"), ModelInfo(provider, "gpt-b")>>
      [] provider = "ollama" -> <<ModelInfo(provider, "llama"), ModelInfo(provider, "llama")>>
      [] OTHER               -> <<ModelInfo(provider, "m-" \o provider)>>

\* getProviderApiKey: the stored or configured key, "" for the providers
\* that need none, null otherwise
GetProviderApiKey(file, lst, provider) ==
    IF provider \in lst.keyed THEN Some("sk-" \o provider)
    ELSE IF file = "routes.models" /\ provider \in {"vllm", "ollama"} THEN Some("")
    ELSE None

\* the provider can be listed without an API key
ListsWithoutKey(file, lst, provider) ==
    \/ provider = "gemini" /\ lst.vertexAi
    \/ file = "routes.models" /\ provider \in {"vllm", "ollama"}

\* the body of the try block calls a fetcher for the provider
CallsFetcher(file, lst, provider) ==
    LET apiKey == GetProviderApiKey(file, lst, provider)
        hasKey == apiKey # None /\ apiKey # Some("")
    IN  IF file = "routes.models"
        THEN hasKey \/ ListsWithoutKey(file, lst, provider)
        ELSE hasKey

\* the outcome of one fetchModelsForProvider call and the cache it leaves
ListingResult(outcome, cache, fetched) ==
    [outcome |-> outcome, cache |-> cache, fetched |-> fetched]

\* fetchModelsForProvider with a catch block that rethrows
FetchModelsForProviderRethrowing(file, lst, provider) ==
    LET apiKey == GetProviderApiKey(file, lst, provider)
        hasKey == apiKey # None /\ apiKey # Some("")
    IN  IF ~hasKey /\ ~ListsWithoutKey(file, lst, provider)
        THEN ListingResult(Returns(<<>>), lst.cache, FALSE)
        ELSE IF lst.cache[provider] # None
        THEN ListingResult(Returns(lst.cache[provider][1]), lst.cache, FALSE)
        ELSE IF CallsFetcher(file, lst, provider) /\ provider \in lst.failing
        THEN ListingResult(Throws, lst.cache, TRUE)
        ELSE LET models == IF CallsFetcher(file, lst, provider)
                           THEN UpstreamModels(provider) ELSE <<>>
             IN  ListingResult(Returns(models),
                               [lst.cache EXCEPT ![provider] = Some(models)],
                               CallsFetcher(file, lst, provider))

\* fetchModelsForProvider({provider, organizationId, userId})
FetchModelsForProvider(file, lst, provider) ==
    LET apiKey == GetProviderApiKey(file, lst, provider)
        hasKey == apiKey # None /\ apiKey # Some("")
    IN  IF ~hasKey /\ ~ListsWithoutKey(file, lst, provider)
        THEN ListingResult(Returns(<<>>), lst.cache, FALSE)
        ELSE IF lst.cache[provider] # None
        THEN ListingResult(Returns(lst.cache[provider][1]), lst.cache, FALSE)
        ELSE IF CallsFetcher(file, lst, provider) /\ provider \in lst.failing
        THEN ListingResult(Returns(<<>>), lst.cache, TRUE)
        ELSE LET models == IF CallsFetcher(file, lst, provider)
                           THEN UpstreamModels(provider) ELSE <<>>
             IN  ListingResult(Returns(models),
                               [lst.cache EXCEPT ![provider] = Some(models)],
                               CallsFetcher(file, lst, provider))

\* uniqBy(models, model => `${model.provider}:${model.id}`): the first model
\* of every key, in the order of the list
UniqBy(models) ==
    LET kept == {k \in 1..Len(models) :
                    \A j \in 1..(k - 1) :
                        \/ models[j].provider # models[k].provider
                        \/ models[j].id # models[k].id}
    IN  [i \in 1..Cardinality(kept) |->
            models[CHOOSE k \in kept : Cardinality({j \in kept : j < k}) = i - 1]]

\* the calls made so far by Promise.all, one more provider taken in
RECURSIVE FetchAllFrom(_, _, _, _)
FetchAllFrom(file, lst, providers, done) ==
    IF providers = <<>> THEN done
    ELSE LET one == FetchModelsForProvider(file, [lst EXCEPT !.cache = done.cache],
                                           Head(providers))
         IN  FetchAllFrom(file, lst, Tail(providers),
                ListingResult(IF done.outcome.thrown \/ one.outcome.thrown THEN Throws
                              ELSE Returns(done.outcome.value \o one.outcome.value),
                              one.cache, done.fetched \/ one.fetched))

\* Promise.all over the providers and results.flat(): the lists in the
\* providers' order, rejected when one of the calls is
FetchAll(file, lst, providers) ==
    FetchAllFrom(file, lst, providers, ListingResult(Returns(<<>>), lst.cache, FALSE))

\* the handler of GET /api/chat/models, query.provider given or not
GetChatModels(file, lst, query) ==
    LET providersToFetch == IF query # None THEN <<query[1]>>
                            ELSE SupportedProviders(file)
        all == FetchAll(file, lst, providersToFetch)
    IN  IF all.outcome.thrown THEN all
        ELSE IF file = "routes.models"
        THEN [all EXCEPT !.outcome = Returns(UniqBy(all.outcome.value))]
        ELSE all

(* ----------------------------- model listing --------------------------- *)
\* one deployment: which providers have an API key, whether Vertex AI is
\* enabled, which upstreams are failing, and an empty cache
ListingInit ==
    /\ impl = "v2"
    /\ \E file \in ListingFiles, vertexAi \in BOOLEAN :
       \E keyed \in SUBSET ProvidersOf(file) :
            listing = [file |-> file, keyed |-> keyed, vertexAi |-> vertexAi,
                       failing |-> {},
                       cache |-> [p \in ProvidersOf(file) |-> None]]
    /\ secrets = SecretsIdle
    /\ pair = PairIdle
    /\ RequestIdle
    /\ StreamIdle
    /\ ResponseIdle
    /\ ret = NoReturn

\* a provider's models endpoint starts or stops failing
UpstreamChanges ==
    /\ \E p \in ProvidersOf(listing.file) :
        /\ p \in listing.failing \/ Cardinality(listing.failing) < MaxFailing
        /\ listing' = [listing EXCEPT !.failing =
                            IF p \in @ THEN @ \ {p} ELSE @ \cup {p}]
    /\ ret' = NoReturn
    /\ UNCHANGED <<impl, secrets, pair, streamVars, response, requestVars>>

FetchModelsForProviderCall ==
    /\ \E p \in ProvidersOf(listing.file) :
        LET out == FetchModelsForProvider(listing.file, listing, p)
        IN  /\ listing' = [listing EXCEPT !.cache = out.cache]
            /\ ret' = Returned("fetchModelsForProvider",
                               [provider |-> p, outcome |-> out.outcome,
                                fetched |-> out.fetched])
    /\ UNCHANGED <<impl, secrets, pair, streamVars, response, requestVars>>

GetChatModelsCall ==
    /\ \E query \in ListingQueries :
        LET out == GetChatModels(listing.file, listing, query)
        IN  /\ listing' = [listing EXCEPT !.cache = out.cache]
            /\ ret' = Returned("getChatModels",
                               [query |-> query, outcome |-> out.outcome,
                                fetched |-> out.fetched])
    /\ UNCHANGED <<impl, secrets, pair, streamVars, response, requestVars>>

ListingNext ==
    \/ UpstreamChanges
    \/ FetchModelsForProviderCall
    \/ GetChatModelsCall

SpecListing == ListingInit /\ [][ListingNext]_vars

\* the provider needs an API key and has none
LacksNeededKey(provider) ==
    /\ provider \notin listing.keyed
    /\ ~ListsWithoutKey(listing.file, listing, provider)

\* the provider has a key and its models endpoint answers
Listable(provider) ==
    /\ provider \in listing.keyed
    /\ provider \notin listing.failing

\* C21: a provider whose models cannot be listed contributes nothing rather
\* than failing the request: fetchModelsForProvider returns [] instead of
\* raising when the provider needs an API key and has none, and when the
\* upstream fetch fails; the aggregation over all providers does not raise
\* and still returns the models of the other providers.
C21_UnlistableProviderContributesNothing ==
    /\ ret.op = "fetchModelsForProvider" =>
        /\ ~ret.value.outcome.thrown
        /\ LacksNeededKey(ret.value.provider) => ret.value.outcome.value = <<>>
        /\ (ret.value.fetched /\ ret.value.provider \in listing.failing)
                => ret.value.outcome.value = <<>>
    /\ ret.op = "getChatModels" =>
        /\ ~ret.value.outcome.thrown
        /\ \A p \in ProvidersOf(listing.file) :
            LET models == ret.value.outcome.value
                own    == {k \in 1..Len(models) : models[k].provider = p}
            IN  /\ (ret.value.query \in {None, Some(p)} /\ Listable(p)) =>
                    \A j \in 1..Len(UpstreamModels(p)) :
                        \E k \in own : models[k] = UpstreamModels(p)[j]
                /\ LacksNeededKey(p) => own = {}

\* all providers were listed while one with a key was failing and another
\* had no key: the answer holds the models of a third
C21_Witness ==
    /\ ret.op = "getChatModels"
    /\ ret.value.query = None
    /\ ret.value.fetched
    /\ "anthropic" \in listing.keyed \cap listing.failing
    /\ listing.cache["anthropic"] = None
    /\ LacksNeededKey("gemini")
    /\ Listable("openai")
    /\ ~ret.value.outcome.thrown
    /\ \E k \in 1..Len(ret.value.outcome.value) :
            ret.value.outcome.value[k].provider = "openai"
    /\ \A k \in 1..Len(ret.value.outcome.value) :
            ret.value.outcome.value[k].provider \notin {"anthropic", "gemini"}

(***************************************************************************)
(* Stream adapter: what each chunk forwards and accumulates                *)
(***************************************************************************)
\* the chunk has a choice whose delta carries non-empty content
HasTextDelta(chunk) ==
    chunk.choices # <<>> /\ TruthyStr(chunk.choices[1].content)

\* the chunk has a choice whose delta carries reasoning_details
HasReasoningDelta(chunk) ==
    chunk.choices # <<>> /\ chunk.choices[1].reasoning_details # None

\* the chunk has a choice whose delta carries tool_calls
HasToolCallsDelta(chunk) ==
    chunk.choices # <<>> /\ chunk.choices[1].tool_calls # None

\* C22: the sseData of a processChunk result is null or exactly "data: ",
\* the JSON of that same chunk and "\n\n"; it is non-null for every chunk
\* with a non-empty text delta and for a chunk with a reasoning delta and no
\* text delta, and null for a chunk with no choices.
C22_SseDataIsTheChunkFrame ==
    \A k \in 1..Len(results) :
        /\ results[k].sseData \in {None, Some(SSEFrame(chunks[k]))}
        /\ HasTextDelta(chunks[k]) => results[k].sseData # None
        /\ (HasReasoningDelta(chunks[k]) /\ ~HasTextDelta(chunks[k]))
                => results[k].sseData # None
        /\ chunks[k].choices = <<>> => results[k].sseData = None

\* the tool-call deltas of the chunk processed last (none when it has no
\* tool_calls)
LastDeltas(h) ==
    IF h # <<>> /\ HasToolCallsDelta(h[Len(h)])
    THEN h[Len(h)].choices[1].tool_calls[1] ELSE <<>>

\* the argument fragments the deltas carry for the accumulator entry at pos
FragmentsFor(deltas, indices, pos) ==
    {deltas[k].arguments[1] : k \in {j \in 1..Len(deltas) :
                                        /\ indices[deltas[j].index] = pos
                                        /\ deltas[j].arguments # None}}

\* C23: once an accumulator entry has a non-empty id (resp. name), a later
\* delta for the same index never changes it: deltas only fill an id or name
\* that is not yet set; the arguments of an entry are only appended to.
C23_IdAndNameOnlyFilledOnce ==
    [][\A pos \in 1..Len(state.toolCalls) :
        /\ Len(state'.toolCalls) >= Len(state.toolCalls)
        /\ state.toolCalls[pos].id # ""
                => state'.toolCalls[pos].id = state.toolCalls[pos].id
        /\ state.toolCalls[pos].name # ""
                => state'.toolCalls[pos].name = state.toolCalls[pos].name
        /\ \/ state'.toolCalls[pos].arguments = state.toolCalls[pos].arguments
           \/ \E fragment \in FragmentsFor(LastDeltas(chunks'),
                                           currentToolCallIndices', pos) :
                state'.toolCalls[pos].arguments
                    = state.toolCalls[pos].arguments \o fragment]_vars

\* the delta.content of the chunks h[1..n] that have a choice, concatenated
\* in the order of processing
RECURSIVE ContentJoined(_, _)
ContentJoined(h, n) ==
    IF n = 0 THEN ""
    ELSE ContentJoined(h, n - 1)
         \o (IF h[n].choices = <<>> THEN ""
             ELSE OrElse(h[n].choices[1].content, ""))

\* C24: state.text is the concatenation, in processing order, of the
\* delta.content of every processed chunk that has a choice; chunks with
\* only reasoning, tool calls or a finish reason, and chunks with no choices,
\* leave it unchanged.
C24_TextIsContentInOrder ==
    /\ [](state.text = ContentJoined(chunks, Len(chunks)))
    /\ [][(chunks' # chunks /\ ~HasTextDelta(chunks'[Len(chunks')]))
            => state'.text = state.text]_vars

\* "Hel" and "lo" were processed with a reasoning chunk between them, then a
\* finish_reason chunk and a chunk with no choices
C24_Witness ==
    /\ Len(chunks) = 5
    /\ chunks[1] = TextChunk("Hel")
    /\ HasReasoningDelta(chunks[2]) /\ ~HasTextDelta(chunks[2])
    /\ chunks[3] = TextChunk("lo")
    /\ CarriesFinishReason(chunks[4])
    /\ chunks[5].choices = <<>>
    /\ state.text = "Hello"

(***************************************************************************)
(* Replay of the tool-call chunks                                          *)
(***************************************************************************)
\* getRawToolCallEvents() empties the list it returns
GetRawToolCallEventsDraining(st) ==
    [state  |-> [st EXCEPT !.rawToolCallEvents = <<>>],
     result |-> [k \in 1..Len(st.rawToolCallEvents) |->
                    SSEFrame(st.rawToolCallEvents[k])]]

\* getRawToolCallEvents(): the adapter's state after the call and the frames
\* returned
GetRawToolCallEvents(st) ==
    [state  |-> st,
     result |-> [k \in 1..Len(st.rawToolCallEvents) |->
                    SSEFrame(st.rawToolCallEvents[k])]]

\* streams in which tool-call chunks and other chunks are mixed
ReplayUpstreams == {ToolCallUpstream, IndexedToolUpstream \cup {TextChunk("Hel")}}

ReplayInit ==
    /\ impl \in Impls
    /\ listing = ListingIdle
    /\ secrets = SecretsIdle
    /\ pair = PairIdle
    /\ upstream \in ReplayUpstreams
    /\ state = NewStreamState
    /\ currentToolCallIndices = <<>>
    /\ chunks = <<>>
    /\ results = <<>>
    /\ RequestIdle
    /\ ResponseIdle
    /\ ret = NoReturn

GetRawToolCallEventsCall ==
    /\ LET out == GetRawToolCallEvents(state)
       IN  /\ state' = out.state
           /\ ret' = Returned("getRawToolCallEvents", out.result)
    /\ UNCHANGED <<impl, listing, secrets, pair, upstream, currentToolCallIndices,
                   chunks, results, requestVars, response>>

ReplayNext == ProcessChunkCall \/ GetRawToolCallEventsCall

SpecReplay == ReplayInit /\ [][ReplayNext]_vars

\* C25: every chunk whose delta carries tool_calls is appended exactly once
\* and unmodified to rawToolCallEvents and is reported with isToolCallChunk
\* true; no other chunk is retained or reported so. getRawToolCallEvents()
\* returns one frame per retained chunk, in the same order, and leaves the
\* list as it was.
C25_ToolCallChunksRetainedForReplay ==
    /\ [](/\ state.rawToolCallEvents = SelectSeq(chunks, HasToolCallsDelta)
          /\ \A k \in 1..Len(chunks) :
                results[k].isToolCallChunk <=> HasToolCallsDelta(chunks[k]))
    /\ [][ret'.op = "getRawToolCallEvents" =>
            /\ state' = state
            /\ Len(ret'.value) = Len(state.rawToolCallEvents)
            /\ \A k \in 1..Len(ret'.value) :
                    ret'.value[k] = SSEFrame(state.rawToolCallEvents[k])]_vars

\* two tool-call chunks and a text chunk between them were processed, and
\* the replay was asked for: it has the two tool-call chunks, in order
C25_Witness ==
    /\ ret.op = "getRawToolCallEvents"
    /\ Len(chunks) = 3
    /\ HasToolCallsDelta(chunks[1])
    /\ HasTextDelta(chunks[2])
    /\ HasToolCallsDelta(chunks[3])
    /\ chunks[3] # chunks[1]
    /\ ret.value = <<SSEFrame(chunks[1]), SSEFrame(chunks[3])>>
    /\ state.rawToolCallEvents = <<chunks[1], chunks[3]>>

\* every tool-call delta of the chunks h[1..n], in the order of processing
RECURSIVE AllDeltas(_, _)
AllDeltas(h, n) ==
    IF n = 0 THEN <<>>
    ELSE AllDeltas(h, n - 1) \o LastDeltas(SubSeq(h, 1, n))

\* the distinct indexes of the deltas, in the order of their first sighting
FirstSightings(deltas) ==
    LET firsts == {k \in 1..Len(deltas) :
                    \A j \in 1..(k - 1) : deltas[j].index # deltas[k].index}
    IN  [i \in 1..Cardinality(firsts) |->
            deltas[CHOOSE k \in firsts :
                        Cardinality({j \in firsts : j < k}) = i - 1].index]

\* the argument fragments of deltas[1..n] that are for the index, joined
RECURSIVE ArgumentsFor(_, _, _)
ArgumentsFor(deltas, n, index) ==
    IF n = 0 THEN ""
    ELSE ArgumentsFor(deltas, n - 1, index)
         \o (IF deltas[n].index = index THEN OrElse(deltas[n].arguments, "") ELSE "")

\* C26: the tool-call accumulator holds exactly one entry per distinct index
\* seen so far, in the order the indexes were first seen; entries are never
\* removed or reordered, and a delta for index i modifies only the entry of
\* index i; toProviderResponse() lists the tool calls in that same order
\* (tool_calls absent when there are none).
C26_OneEntryPerIndexInFirstSightingOrder ==
    /\ [](LET seen  == FirstSightings(AllDeltas(chunks, Len(chunks)))
              calls == ToProviderResponse(impl, state).choices[1].message.tool_calls
          IN  /\ Len(state.toolCalls) = Len(seen)
              /\ DOMAIN currentToolCallIndices = {seen[k] : k \in 1..Len(seen)}
              /\ \A k \in 1..Len(seen) :
                    /\ currentToolCallIndices[seen[k]] = k
                    /\ state.toolCalls[k].arguments
                        = ArgumentsFor(AllDeltas(chunks, Len(chunks)),
                                       Len(AllDeltas(chunks, Len(chunks))), seen[k])
              /\ (calls = None) <=> (seen = <<>>)
              /\ calls # None =>
                    /\ Len(calls[1]) = Len(seen)
                    /\ \A k \in 1..Len(seen) :
                        /\ calls[1][k].id = state.toolCalls[k].id
                        /\ calls[1][k].function.name = state.toolCalls[k].name
                        /\ calls[1][k].function.arguments = state.toolCalls[k].arguments)
    /\ [][/\ Len(state'.toolCalls) >= Len(state.toolCalls)
          /\ \A pos \in 1..Len(state.toolCalls) :
                state'.toolCalls[pos] # state.toolCalls[pos] =>
                    \E k \in 1..Len(LastDeltas(chunks')) :
                        /\ chunks' # chunks
                        /\ currentToolCallIndices'[LastDeltas(chunks')[k].index] = pos]_vars

\* index 1 was seen before index 0 in one chunk, and a later chunk brought a
\* fragment for index 0: the call of index 1 is listed first, and only the
\* call of index 0 has grown
C26_Witness ==
    /\ Len(chunks) = 2
    /\ Len(LastDeltas(SubSeq(chunks, 1, 1))) = 2
    /\ LastDeltas(SubSeq(chunks, 1, 1))[1].index = 1
    /\ LastDeltas(SubSeq(chunks, 1, 1))[2].index = 0
    /\ LastDeltas(chunks) = <<ToolCallDelta(0, None, None, Some("}"))>>
    /\ currentToolCallIndices[1] = 1
    /\ currentToolCallIndices[0] = 2
    /\ ToProviderResponse(impl, state).choices[1].message.tool_calls[1]
        = << [id |-> "call_b", type |-> "function",
              function |-> [name |-> "get_time", arguments |-> "{}"]],
             [id |-> "call_a", type |-> "function",
              function |-> [name |-> "get_weather", arguments |-> "{}"]] >>

\* C27: isFinal is monotone: once processChunk has returned isFinal = true
\* for a chunk, it returns isFinal = true for every later chunk, whatever
\* that chunk holds.
C27_IsFinalMonotone ==
    \A j, k \in 1..Len(results) :
        (j < k /\ results[j].isFinal) => results[k].isFinal

\* the usage arrived with the second chunk; the third, a chunk with a choice
\* and no usage, and the fourth, with no choice and no usage, are final too
C27_Witness ==
    /\ Len(chunks) = 4
    /\ ~results[1].isFinal
    /\ CarriesUsage(chunks[2])
    /\ results[2].isFinal
    /\ ~CarriesUsage(chunks[3]) /\ chunks[3].choices # <<>>
    /\ results[3].isFinal
    /\ chunks[4] = KeepAliveChunk
    /\ results[4].isFinal

(***************************************************************************)
(* Staged tool-result updates and compression                              *)
(***************************************************************************)
\* C28: a staged tool-result update takes precedence over compression,
\* whatever the order of the two calls: when updateToolResult(id, c) has been
\* staged and applyToonCompression has run, before or after the staging,
\* toProviderRequest() carries content c for that id, while
\* getProviderMessages() and getToolResults() reflect the compressed held
\* request and never the staged update.
C28_StagedUpdateWinsOverCompression ==
    (ret.op = "toProviderRequest" /\ toonApplied) =>
        /\ \A k \in 1..Len(request.messages) :
            (request.messages[k].role = "tool"
                /\ request.messages[k].tool_call_id \in DOMAIN staged)
            => ret.value.messages[k].content
                    = StringContent(staged[request.messages[k].tool_call_id])
        /\ GetProviderMessages(request)
            = ConvertToolResultsToToon(request.messages, None).messages
        /\ GetToolResults(request)
            = GetToolResults([request EXCEPT !.messages =
                ConvertToolResultsToToon(nativeRequest.messages, None).messages])

(***************************************************************************)
(* Streaming calls                                                         *)
(***************************************************************************)
\* C29: executeStream always sends the request with stream = true and
\* stream_options.include_usage = true, whatever the stream flag of the
\* request it is given.
C29_StreamingCallsAskForUsage ==
    ret.op = "executeStream" =>
        /\ ret.value.params.stream = Some(TRUE)
        /\ ret.value.params.stream_options = Some([include_usage |-> TRUE])
        /\ ret.value.params.model = ret.value.request.model
        /\ ret.value.params.messages = ret.value.request.messages

\* a request that says stream: false was streamed
C29_Witness ==
    /\ ret.op = "executeStream"
    /\ ret.value.request.stream = Some(FALSE)
    /\ ret.value.params.stream = Some(TRUE)
    /\ ret.value.params.stream_options # None

(***************************************************************************)
(* VaultSecretManager.createSecret (src/unnamed/part_006)                  *)
(***************************************************************************)
\* how many secrets one run creates
MaxSecrets == 2

\* the names createSecret is called with
SecretNames == {"api key", "", "9lives"}

\* the values createSecret is called with, as their JSON text
SecretValues == {"{\"token\":\"a\"}", "{}"}

\* sanitizeVaultSecretName(name)
SanitizeVaultSecretName(name) ==
    CASE name = ""        -> "secret"
      [] name = "api key" -> "api_key"
      [] name = "9lives"  -> "_9lives"

\* getVaultPath(name, id): `secret/data/archestra/${name}-${id}`
GetVaultPath(name, id) == [prefix |-> "secret/data/archestra/", name |-> name, id |-> id]

\* a row of the secrets table
SecretRecord(id, name, secret, isVault) ==
    [id |-> id, name |-> name, secret |-> secret, isVault |-> isVault]

\* how the calls to the two stores end during one createSecret call:
\* the Vault login, the insert, the Vault write and the rollback delete
StoreOutcomes ==
    [initialized : BOOLEAN, inserted : BOOLEAN, written : BOOLEAN, deleted : BOOLEAN]

\* a call that ends with the given error thrown
Raises(error) == [thrown |-> TRUE, value |-> JsString(error)]

\* createSecret(secretValue, name): the two stores after the call and how
\* the call ends
CreateSecret(sec, secretValue, name, env) ==
    IF ~env.initialized THEN [secrets |-> sec, outcome |-> Raises("vault login")]
    ELSE IF ~env.inserted THEN [secrets |-> sec, outcome |-> Raises("db insert")]
    ELSE
    LET dbRecord  == SecretRecord(sec.created + 1, SanitizeVaultSecretName(name),
                                  "{}", TRUE)
        stored    == [sec EXCEPT !.db = @ \cup {dbRecord}, !.created = @ + 1]
        vaultPath == GetVaultPath(dbRecord.name, dbRecord.id)
    IN  IF env.written
        THEN [secrets |-> [stored EXCEPT !.vault =
                            @ \cup {[path |-> vaultPath, value |-> secretValue]}],
              outcome |-> Returns([dbRecord EXCEPT !.secret = secretValue])]
        ELSE IF env.deleted
        THEN [secrets |-> [stored EXCEPT !.db = @ \ {dbRecord}],
              outcome |-> Raises("vault write")]
        ELSE [secrets |-> stored, outcome |-> Raises("db delete")]

(* ----------------------------- secret manager -------------------------- *)
SecretsInit ==
    /\ impl = "v2"
    /\ listing = ListingIdle
    /\ secrets = SecretsIdle
    /\ pair = PairIdle
    /\ RequestIdle
    /\ StreamIdle
    /\ ResponseIdle
    /\ ret = NoReturn

CreateSecretCall ==
    /\ secrets.created < MaxSecrets
    /\ \E secretValue \in SecretValues, name \in SecretNames, env \in StoreOutcomes :
        LET out == CreateSecret(secrets, secretValue, name, env)
        IN  /\ secrets' = out.secrets
            /\ ret' = Returned("createSecret",
                               [secretValue |-> secretValue, name |-> name,
                                env |-> env, outcome |-> out.outcome])
    /\ UNCHANGED <<impl, listing, pair, streamVars, response, requestVars>>

SecretsNext == CreateSecretCall

SpecSecrets == SecretsInit /\ [][SecretsNext]_vars

\* C30: createSecret is all-or-nothing across the two stores: if the Vault
\* write fails after the database record was created, the record is deleted
\* before the error of the write is rethrown, so a failed call leaves the
\* table as it was; on success the record exists in the table with an empty
\* stored secret and the value exists in Vault under the record's path.
C30_CreateSecretAllOrNothing ==
    [][ret'.op = "createSecret" =>
        LET out == ret'.value.outcome
            env == ret'.value.env
        IN  /\ out.thrown => secrets'.db = secrets.db
            /\ (env.initialized /\ env.inserted /\ ~env.written)
                    => out = Raises("vault write")
            /\ ~out.thrown =>
                /\ \E r \in secrets'.db \ secrets.db :
                    /\ r.id = out.value.id
                    /\ r.secret = "{}"
                    /\ r.isVault
                    /\ [path |-> GetVaultPath(r.name, r.id),
                        value |-> ret'.value.secretValue] \in secrets'.vault
                /\ out.value.secret = ret'.value.secretValue]_vars

====
